---- MODULE Spec2Model ----
(***************************************************************************)
(* FlashSentry: the verification orchestrator (MainWindow), the whitelist  *)
(* store (DatabaseManager), the hasher (HashWorker) and the device watcher *)
(* (DeviceMonitor), as one state machine.                                  *)
(*                                                                         *)
(* Three execution contexts take steps: the monitor thread (udev events    *)
(* and scans), the hash workers of the thread pool (executeHash), and the  *)
(* main thread, which runs one handler per step: a queued event of the     *)
(* monitor or of a finished job, or a user action on a device card.        *)
(* Signals between objects of the main thread are direct calls, so that    *)
(* startHash runs onHashStarted and onJobFinished runs onHashCompleted /   *)
(* onHashFailed / onHashCancelled inside the same step.  A modal dialog    *)
(* is part of the handler that opens it; its answer is an input of the     *)
(* step.                                                                   *)
(*                                                                         *)
(* The settings are those loaded at start and stay as loaded.  One device  *)
(* node and one device identity are followed.                              *)
(***************************************************************************)
EXTENDS Integers, Sequences, FiniteSets, TLC

(* ------------------------------------------------------------------ *)
(* Bounds of the model                                                 *)
(* ------------------------------------------------------------------ *)
MaxJobs == 2      \* hash jobs ever started (m_jobCounter)
MaxPhys == 2      \* events of the world: plug, unplug, mount change, tick
MaxDeep == 3      \* the same, in the runs from the default settings
MaxUser == 1      \* user actions on the cards and the toolbar
MaxClock == 1     \* ticks of the wall clock

(* ------------------------------------------------------------------ *)
(* Values                                                              *)
(* ------------------------------------------------------------------ *)
Nodes == {"/dev/sdb1", "/dev/sdb2"}

\* The node of a stick with one partition.
OnePartition == {"/dev/sdb1"}

\* Physical devices by (serial, vendor, model).
DevA == [serial |-> "S1", vendor |-> "V", model |-> "M"]
Devs == {DevA}
NoTriple == [serial |-> "", vendor |-> "", model |-> ""]

\* Partition contents, and the hex digest the hasher prints for each
\* (lower-case hex digits, HashWorker.cpp 343-349).
Contents == {"x", "y"}
Digest(c) == IF c = "x" THEN <<"a", "1">> ELSE <<"b", "2">>

NoHash == <<>>

\* Qt::CaseInsensitive folding of the characters that occur in a hash.
toLowerChar(ch) ==
    CASE ch = "A" -> "a"
      [] ch = "B" -> "b"
      [] OTHER -> ch
toLower(s) == [i \in 1..Len(s) |-> toLowerChar(s[i])]
toUpperChar(ch) ==
    CASE ch = "a" -> "A"
      [] ch = "b" -> "B"
      [] OTHER -> ch
toUpper(s) == [i \in 1..Len(s) |-> toUpperChar(s[i])]

\* A comparison that tells the letter cases apart.
compareExact(a, b) == a = b

\* QString::compare(a, b, Qt::CaseInsensitive) == 0
compareCI(a, b) == toLower(a) = toLower(b)

\* DeviceInfo (std::nullopt is the record with present = FALSE)
NoDevice == [present |-> FALSE, deviceNode |-> "", serial |-> "",
             vendor |-> "", model |-> "", isMounted |-> FALSE]
DeviceInfo(n, t, mounted) ==
    [present |-> TRUE, deviceNode |-> n, serial |-> t.serial,
     vendor |-> t.vendor, model |-> t.model, isMounted |-> mounted]

\* A key that also tells the device nodes apart.
uniqueIdOfNode(d) ==
    IF d.serial = ""
    THEN d.vendor \o "_" \o d.model \o "_" \o d.deviceNode
    ELSE d.serial \o "_" \o d.vendor \o "_" \o d.model \o "_"
         \o d.deviceNode

\* DeviceInfo::uniqueId
uniqueId(d) ==
    IF d.serial = ""
    THEN d.vendor \o "_" \o d.model
    ELSE d.serial \o "_" \o d.vendor \o "_" \o d.model

Ids == {uniqueId(DeviceInfo("", t, FALSE)) : t \in Devs}

\* DeviceRecord; an invalid QDateTime is -1.
NoRecord == [present |-> FALSE, hash |-> NoHash, hashAlgorithm |-> "",
             firstSeen |-> -1, lastSeen |-> -1, lastHashed |-> -1,
             trustLevel |-> 0, autoMount |-> FALSE]

\* VerificationStatus; a node without a card has no status.
\* rehashEnabled is the enabled state of the card's rehash button.
NoCard == [present |-> FALSE, device |-> NoDevice, status |-> "None",
           rehashEnabled |-> FALSE]

\* A job of HashWorker::m_jobs.  result is "pending" until executeHash
\* returns, then "ok" (hash holds the digest) or the kind of failure.
NoJob == [present |-> FALSE, deviceNode |-> "", cancelled |-> FALSE,
          result |-> "", hash |-> NoHash]

\* An effect a handler has on its collaborators: a request to the mount
\* manager, an emitted signal, a log line, a dialog.
Eff(k, n) == [k |-> k, node |-> n, id |-> "", expected |-> NoHash,
              actual |-> NoHash, job |-> 0, level |-> "", by |-> ""]

\* An event queued to the main thread.
Ev(type, n, info, j) == [type |-> type, node |-> n, info |-> info, job |-> j]

(* ------------------------------------------------------------------ *)
(* State                                                               *)
(* ------------------------------------------------------------------ *)
VARIABLES
    phys,               \* the partitions that are plugged in, per node
    udevq,              \* kernel device notifications not yet received
    mon_devices,        \* DeviceMonitor::m_devices
    m_rescanRequested,  \* DeviceMonitor::m_rescanRequested
    mainq,              \* events posted to the main thread
    m_deviceCards,      \* MainWindow::m_deviceCards
    db_devices,         \* DatabaseManager::m_devices
    m_modified,         \* DatabaseManager::m_modified
    m_jobs,             \* HashWorker::m_jobs
    m_jobCounter,       \* HashWorker::m_jobCounter
    m_hashJobDevices,   \* MainWindow::m_hashJobDevices
    m_activeHashCount,  \* MainWindow::m_activeHashCount
    m_settings,         \* MainWindow::m_settings
    now,                \* QDateTime::currentDateTime()
    out,                \* effects of the last step, in order
    last,               \* the handler the last step ran
    hist,               \* history the temporal claims refer to
    budget,             \* steps the environment and the user have left
    maxThreadCount,     \* QThreadPool::globalInstance()->maxThreadCount()
    m_maxConcurrent,    \* HashWorker::m_maxConcurrent
    m_initialized,      \* DatabaseManager::m_initialized
    disk,               \* the files of the database directory
    m_running,          \* DeviceMonitor::m_running
    thread,             \* the QThread of DeviceMonitor: its state, its runs
    callers,            \* the threads that call the monitor, each one's place
    m_wakeupPipe,       \* bytes written to the wakeup pipe and not yet read
    hashing,            \* one hash job followed read by read (JobState)
    m_progressTimer     \* HashWorker::m_progressTimer->isActive()

vars == <<phys, udevq, mon_devices, m_rescanRequested, mainq, m_deviceCards,
          db_devices, m_modified, m_jobs, m_jobCounter,
          m_hashJobDevices, m_activeHashCount, m_settings, now, out, last,
          hist, budget, maxThreadCount, m_maxConcurrent, m_initialized,
          disk, m_running, thread, callers, m_wakeupPipe, hashing,
          m_progressTimer>>

workerVars == <<maxThreadCount, m_maxConcurrent>>
fileVars == <<m_initialized, disk>>
threadVars == <<m_running, thread, callers, m_wakeupPipe>>

JobIds == 1..MaxJobs

(* ------------------------------------------------------------------ *)
(* The main thread's objects as one value.  A handler is an operator   *)
(* from such a value to the value it leaves; the step that runs the    *)
(* handler stores the fields back into the variables.  ok is FALSE     *)
(* when the handler needs a job id beyond MaxJobs; posted are the      *)
(* calls the handler queues to the main thread's event loop.           *)
(* ------------------------------------------------------------------ *)
Cur == [cards |-> m_deviceCards, db |-> db_devices, modified |-> m_modified,
        jobs |-> m_jobs, jobCounter |-> m_jobCounter,
        hjd |-> m_hashJobDevices, active |-> m_activeHashCount,
        out |-> <<>>, posted |-> <<>>, ok |-> TRUE,
        lock |-> "none", held |-> <<>>, io |-> <<>>,
        timer |-> m_progressTimer]

\* An emit: the signal, and how the caller holds the store's m_lock at
\* that moment.
emit(st, e) == [st EXCEPT !.out = Append(@, e), !.held = Append(@, st.lock)]

\* QWriteLocker and QReadLocker on m_lock, and their end.
lockForWrite(st) == [st EXCEPT !.lock = "write"]
lockForRead(st) == [st EXCEPT !.lock = "read"]
unlock(st) == [st EXCEPT !.lock = "none"]

\* MainWindow::logMessage
logMessage(st, level, n) == emit(st, [Eff("log", n) EXCEPT !.level = level])

\* DeviceCard::setVerificationStatus through MainWindow::getDeviceCard:
\* nothing happens when the node has no card.
setVerificationStatus(st, n, status) ==
    IF st.cards[n].present
    THEN [st EXCEPT !.cards[n].status = status]
    ELSE st

\* DeviceCard::setProgressVisible
setProgressVisible(st, n, visible) ==
    IF visible THEN setVerificationStatus(st, n, "Hashing") ELSE st

\* DeviceCard::updateDisplay -> updateActionButtons: the only place the
\* rehash button is enabled or disabled.
updateDisplay(st, n) ==
    IF st.cards[n].present
    THEN [st EXCEPT !.cards[n].rehashEnabled = (st.cards[n].status # "Hashing")]
    ELSE st

(* ---------------- DatabaseManager ---------------- *)

\* DatabaseManager::markModified (m_autoSave is true and never changed):
\* a call of save() is queued.
markModified(st) ==
    [st EXCEPT !.modified = TRUE,
               !.posted = Append(@, Ev("save", "", NoDevice, 0))]

\* DatabaseManager::hasDevice
hasDevice(st, id) == st.db[id].present

\* DatabaseManager::getDevice
getRecord(st, id) == st.db[id]

\* An addDevice that replaces the record of a key that exists.
addDeviceOverwrites(st, id, record) ==
    emit(markModified([st EXCEPT !.db[id] = record]),
         [Eff("deviceAdded", "") EXCEPT !.id = id])

\* DatabaseManager::addDevice
addDevice(st, id, record) ==
    IF st.db[id].present
    THEN st
    ELSE emit(markModified([st EXCEPT !.db[id] = record]),
              [Eff("deviceAdded", "") EXCEPT !.id = id])

\* DatabaseManager::updateLastSeen
updateLastSeen(st, id) ==
    IF ~st.db[id].present
    THEN st
    ELSE markModified([st EXCEPT !.db[id].lastSeen = now])

\* DatabaseManager::updateHash
updateHash(st, id, hash, algorithm) ==
    IF ~st.db[id].present
    THEN st
    ELSE emit(markModified([st EXCEPT !.db[id].hash = hash,
                                      !.db[id].hashAlgorithm = algorithm,
                                      !.db[id].lastHashed = now]),
              [Eff("deviceUpdated", "") EXCEPT !.id = id])

\* DatabaseManager::verifyHash, the value it returns
verifyHashMatches(st, id, hash) ==
    /\ st.db[id].present
    /\ compareCI(st.db[id].hash, hash)

\* MainWindow::onHashMismatch, the slot of DatabaseManager::hashMismatch
onHashMismatch(st, id) ==
    emit(st, [Eff("log", "") EXCEPT !.level = "Security", !.id = id])

\* DatabaseManager::verifyHash, the signal it emits
verifyHashEmit(st, id, hash) ==
    IF /\ st.db[id].present
       /\ ~compareCI(st.db[id].hash, hash)
       /\ st.db[id].hash # NoHash
    THEN unlock(onHashMismatch(
             emit(lockForRead(st), [Eff("hashMismatch", "") EXCEPT
                          !.id = id, !.expected = st.db[id].hash,
                          !.actual = hash]),
             id))
    ELSE st

(* ---------------- MountManager ---------------- *)

\* MountManager::mount / unmount / powerOff: the request as issued
mount(st, n, by) == emit(st, [Eff("mount", n) EXCEPT !.by = by])
unmount(st, n, by) == emit(st, [Eff("unmount", n) EXCEPT !.by = by])
powerOff(st, n, by) == emit(st, [Eff("powerOff", n) EXCEPT !.by = by])

(* ---------------- HashWorker, main-thread side ---------------- *)

\* MainWindow::onHashStarted
onHashStarted(st, j, n) ==
    setProgressVisible(
        [st EXCEPT !.hjd[j] = n, !.active = @ + 1],
        n, TRUE)

\* A startHash that leaves the progress timer as it finds it.
startHashLeavesTimer(st, n) ==
    IF st.jobCounter >= MaxJobs
    THEN [st EXCEPT !.ok = FALSE]
    ELSE LET j == st.jobCounter + 1
             st1 == [st EXCEPT
                        !.jobCounter = j,
                        !.jobs[j] = [present |-> TRUE, deviceNode |-> n,
                                     cancelled |-> FALSE,
                                     result |-> "pending", hash |-> NoHash]]
         IN onHashStarted(
                emit(st1, [Eff("hashStarted", n) EXCEPT !.job = j]), j, n)

\* HashWorker::startHash
startHash(st, n) ==
    IF st.jobCounter >= MaxJobs
    THEN [st EXCEPT !.ok = FALSE]
    ELSE LET j == st.jobCounter + 1
             st1 == [st EXCEPT
                        !.jobCounter = j,
                        !.timer = TRUE,
                        !.jobs[j] = [present |-> TRUE, deviceNode |-> n,
                                     cancelled |-> FALSE,
                                     result |-> "pending", hash |-> NoHash]]
         IN onHashStarted(
                emit(st1, [Eff("hashStarted", n) EXCEPT !.job = j]), j, n)

\* MainWindow::startHashing
startHashing(st, n) == startHash(st, n)

\* HashWorker::cancelHash
cancelHash(st, j) ==
    IF j \in JobIds /\ st.jobs[j].present
    THEN [st EXCEPT !.jobs[j].cancelled = TRUE]
    ELSE st

\* HashWorker::cancelAll
cancelAll(st) ==
    [st EXCEPT !.jobs = [j \in JobIds |->
                            IF st.jobs[j].present
                            THEN [st.jobs[j] EXCEPT !.cancelled = TRUE]
                            ELSE st.jobs[j]]]

\* HashWorker::setMaxConcurrent, the value m_maxConcurrent takes
setMaxConcurrent(max) == IF max > 1 THEN max ELSE 1

\* HashWorker::activeJobCount
activeJobCount(jobs) == Cardinality({j \in JobIds : jobs[j].present})

\* qMax(0, m_activeHashCount - 1)
decActive(a) == IF a - 1 > 0 THEN a - 1 ELSE 0


(* ---------------- MainWindow: device events ---------------- *)

\* MainWindow::addDeviceCard: an existing card is kept as it is.
addDeviceCard(st, device) ==
    IF st.cards[device.deviceNode].present
    THEN st
    ELSE updateDisplay(
             [st EXCEPT !.cards[device.deviceNode] =
                 [present |-> TRUE, device |-> device, status |-> "Unknown",
                  rehashEnabled |-> FALSE]],
             device.deviceNode)

\* MainWindow::removeDeviceCard
removeDeviceCard(st, n) == [st EXCEPT !.cards[n] = NoCard]

\* The DeviceRecord handleNewDevice builds for a device.
newRecord(device) ==
    [present |-> TRUE, hash |-> NoHash, hashAlgorithm |-> "SHA256",
     firstSeen |-> now, lastSeen |-> now, lastHashed |-> -1,
     trustLevel |-> m_settings.defaultTrustLevel, autoMount |-> FALSE]

\* MainWindow::handleNewDevice, confirmation answered Yes
newDeviceAccepted(st, device) ==
    LET n == device.deviceNode
        st1 == logMessage(addDevice(st, uniqueId(device), newRecord(device)),
                          "Info", n)
        st2 == IF m_settings.autoHashOnConnect THEN startHashing(st1, n)
               ELSE st1
    IN mount(st2, n, "connect")

\* A declined branch that whitelists, hashes and mounts all the same.
newDeviceDeclinedProceeds(st, device) == newDeviceAccepted(st, device)

\* MainWindow::handleNewDevice, confirmation answered No
newDeviceDeclined(st, device) == logMessage(st, "Warning", device.deviceNode)

\* MainWindow::handleNewDevice, no confirmation required
newDeviceSilent(st, device) ==
    LET st1 == addDevice(st, uniqueId(device), newRecord(device))
    IN IF m_settings.autoHashOnConnect
       THEN startHashing(st1, device.deviceNode)
       ELSE st1

\* MainWindow::handleNewDevice; allowed is the answer of showNewDeviceDialog
handleNewDevice(st, device, allowed) ==
    LET n == device.deviceNode
        st1 == setVerificationStatus(st, n, "NewDevice")
    IN IF m_settings.requireConfirmationForNew
       THEN LET st2 == emit(st1, [Eff("newDeviceDialog", n) EXCEPT
                                     !.id = uniqueId(device)])
            IN IF allowed
               THEN newDeviceAccepted(st2, device)
               ELSE newDeviceDeclined(st2, device)
       ELSE newDeviceSilent(st1, device)

\* MainWindow::handleKnownDevice
handleKnownDevice(st, device, id, record) ==
    LET n == device.deviceNode
        st1 == updateDisplay(updateLastSeen(st, id), n)
    IN IF m_settings.autoHashOnConnect /\ record.hash # NoHash
       THEN startHashing(st1, n)
       ELSE IF m_settings.autoHashOnConnect
            THEN startHashing(st1, n)
            ELSE IF record.autoMount \/ record.trustLevel >= 2
                 THEN mount(st1, n, "connect")
                 ELSE st1

\* MainWindow::onDeviceConnected
onDeviceConnected(st, device, allowed) ==
    LET st1 == addDeviceCard(logMessage(st, "Info", device.deviceNode), device)
        id == uniqueId(device)
    IN IF hasDevice(st1, id)
       THEN handleKnownDevice(st1, device, id, getRecord(st1, id))
       ELSE handleNewDevice(st1, device, allowed)

\* MainWindow::onDeviceDisconnected.  The loop over m_hashJobDevices stops
\* at the first job of the node in QHash order: j is that job, 0 if the
\* node has none.
onDeviceDisconnected(st, n, j) ==
    removeDeviceCard(cancelHash(logMessage(st, "Info", n), j), n)

\* MainWindow::onDeviceChanged -> updateDeviceCard
onDeviceChanged(st, device) ==
    IF st.cards[device.deviceNode].present
    THEN updateDisplay([st EXCEPT !.cards[device.deviceNode].device = device],
                       device.deviceNode)
    ELSE st

(* ---------------- MainWindow: hash events ---------------- *)

\* MainWindow::showModifiedDeviceAlert; yes is the answer of the dialog
\* when it has Yes / No buttons.
showModifiedDeviceAlert(st, device, expected, actual, yes) ==
    LET n == device.deviceNode
        st1 == emit(st, [Eff("modifiedAlert", n) EXCEPT
                            !.id = uniqueId(device),
                            !.expected = expected, !.actual = actual])
    IN IF m_settings.blockModifiedDevices
       THEN st1
       ELSE IF yes
            THEN logMessage(
                     mount(updateHash(st1, uniqueId(device), actual,
                                      m_settings.hashAlgorithm),
                           n, "accepted"),
                     "Warning", n)
            ELSE st1

\* onHashCompleted, stored hash present and verifyHash returned true
hashVerified(st, deviceInfo) ==
    LET n == deviceInfo.deviceNode
        st1 == setVerificationStatus(logMessage(st, "Info", n), n, "Verified")
    IN IF ~deviceInfo.isMounted THEN mount(st1, n, "verified") ELSE st1

\* onHashCompleted, stored hash present and verifyHash returned false
hashMismatched(st, deviceInfo, record, hash, yes) ==
    LET n == deviceInfo.deviceNode
        st1 == setVerificationStatus(logMessage(st, "Security", n),
                                     n, "Modified")
    IN showModifiedDeviceAlert(st1, deviceInfo, record.hash, hash, yes)

\* onHashCompleted, no record or no stored hash: "First hash for this device"
firstHash(st, deviceInfo, hash, algorithm) ==
    LET n == deviceInfo.deviceNode
        st1 == updateHash(st, uniqueId(deviceInfo), hash, algorithm)
        st2 == setVerificationStatus(logMessage(st1, "Info", n), n, "Verified")
    IN IF ~deviceInfo.isMounted THEN mount(st2, n, "first") ELSE st2

\* MainWindow::onHashCompleted
onHashCompleted(st, j, hash, algorithm, yes) ==
    LET n == st.hjd[j]
        st1 == [st EXCEPT !.hjd[j] = "", !.active = decActive(@)]
    IN IF n = ""
       THEN st1
       ELSE LET deviceInfo == mon_devices[n]
            IN IF ~deviceInfo.present
               THEN logMessage(st1, "Info", n)
               ELSE LET id == uniqueId(deviceInfo)
                        record == getRecord(st1, id)
                    IN IF record.present /\ record.hash # NoHash
                       THEN IF verifyHashMatches(st1, id, hash)
                            THEN hashVerified(st1, deviceInfo)
                            ELSE hashMismatched(verifyHashEmit(st1, id, hash),
                                                deviceInfo, record, hash, yes)
                       ELSE firstHash(st1, deviceInfo, hash, algorithm)

\* MainWindow::onHashFailed
onHashFailed(st, j) ==
    LET n == st.hjd[j]
        st1 == logMessage([st EXCEPT !.hjd[j] = "", !.active = decActive(@)],
                          "Error", n)
    IN IF n \in Nodes THEN setVerificationStatus(st1, n, "Error") ELSE st1

\* MainWindow::onHashCancelled
onHashCancelled(st, j) ==
    LET n == st.hjd[j]
    IN logMessage([st EXCEPT !.hjd[j] = "", !.active = decActive(@)],
                  "Info", n)

\* onJobFinished, "Stop timer if no more jobs"
stopIfIdle(st) ==
    IF \A j \in JobIds : ~st.jobs[j].present
    THEN [st EXCEPT !.timer = FALSE]
    ELSE st

\* A completion that reports the result of the future whatever the
\* cancelled flag says.
onJobFinishedByResult(st, j, yes) ==
    IF ~st.jobs[j].present
    THEN st
    ELSE LET job == st.jobs[j]
             st1 == stopIfIdle([st EXCEPT !.jobs[j] = NoJob])
         IN IF job.result = "ok"
            THEN onHashCompleted(
                     emit(st1, [Eff("hashCompleted", job.deviceNode)
                                   EXCEPT !.job = j, !.actual = job.hash]),
                     j, job.hash, "SHA256", yes)
            ELSE onHashFailed(
                     emit(st1, [Eff("hashFailed", job.deviceNode) EXCEPT
                                   !.job = j]), j)

\* HashWorker::onJobFinished with the slots its signals call
onJobFinished(st, j, yes) ==
    IF ~st.jobs[j].present
    THEN st
    ELSE LET job == st.jobs[j]
             st1 == stopIfIdle([st EXCEPT !.jobs[j] = NoJob])
         IN IF job.cancelled
            THEN onHashCancelled(
                     emit(st1, [Eff("hashCancelled", job.deviceNode) EXCEPT
                                   !.job = j]), j)
            ELSE IF job.result = "ok"
                 THEN onHashCompleted(
                          emit(st1, [Eff("hashCompleted", job.deviceNode)
                                        EXCEPT !.job = j, !.actual = job.hash]),
                          j, job.hash, "SHA256", yes)
                 ELSE onHashFailed(
                          emit(st1, [Eff("hashFailed", job.deviceNode) EXCEPT
                                        !.job = j]), j)

(* ---------------- MainWindow: device card actions ---------------- *)

\* MainWindow::onMountRequested
onMountRequested(st, n) == mount(logMessage(st, "Info", n), n, "user")

\* MainWindow::onUnmountRequested
onUnmountRequested(st, n) ==
    IF ~mon_devices[n].present
    THEN st
    ELSE IF m_settings.autoHashOnEject
         THEN startHashing(logMessage(st, "Info", n), n)
         ELSE unmount(st, n, "user")

\* MainWindow::onEjectRequested
onEjectRequested(st, n) ==
    IF ~mon_devices[n].present
    THEN st
    ELSE LET st1 == logMessage(st, "Info", n)
             st2 == IF mon_devices[n].isMounted
                    THEN unmount(st1, n, "eject")
                    ELSE st1
         IN powerOff(st2, n, "eject")

\* MainWindow::onRehashRequested
onRehashRequested(st, n) == startHashing(logMessage(st, "Info", n), n)


(* ------------------------------------------------------------------ *)
(* DatabaseManager: records, JSON and files                            *)
(* ------------------------------------------------------------------ *)

\* The clock counts milliseconds; Qt::ISODate prints whole seconds.
MsPerSecond == 1000

\* QDateTime::toString(Qt::ISODate): the text of an invalid time is empty
\* (-1 here), that of a valid one names its second.
toIsoDate(t) == IF t < 0 THEN -1 ELSE t \div MsPerSecond

\* QDateTime::fromString(text, Qt::ISODate)
fromIsoDate(text) == IF text < 0 THEN -1 ELSE text * MsPerSecond

\* The keys of the device table: the identities, and the empty string of
\* a record whose uniqueId was never set.
StoreIds == Ids \cup {""}

\* A default-constructed DeviceInfo, as the snapshot of a record holds it.
DefaultInfo == [NoDevice EXCEPT !.present = TRUE]

\* DeviceRecord with its key and its snapshot of the device.
DeviceRecord(id, hash, seen, trust, info) ==
    [present |-> TRUE, uniqueId |-> id, hash |-> hash,
     hashAlgorithm |-> "SHA256", firstSeen |-> seen, lastSeen |-> seen,
     lastHashed |-> IF hash = NoHash THEN -1 ELSE seen,
     trustLevel |-> trust, autoMount |-> FALSE, lastKnownInfo |-> info]

\* DeviceInfo::toJson: parentDevice, mountPoint, isRemovable and isMounted
\* are not written.
infoToJson(d) ==
    [device_node |-> d.deviceNode, serial |-> d.serial, vendor |-> d.vendor,
     model |-> d.model]

\* DeviceInfo::fromJson: the members that are not read keep their defaults.
infoFromJson(obj) ==
    [present |-> TRUE, deviceNode |-> obj.device_node, serial |-> obj.serial,
     vendor |-> obj.vendor, model |-> obj.model, isMounted |-> FALSE]

\* DeviceRecord::toJson
toJson(r) ==
    [unique_id |-> r.uniqueId, hash |-> r.hash,
     hash_algorithm |-> r.hashAlgorithm,
     first_seen |-> toIsoDate(r.firstSeen),
     last_seen |-> toIsoDate(r.lastSeen),
     last_hashed |-> toIsoDate(r.lastHashed),
     trust_level |-> r.trustLevel, auto_mount |-> r.autoMount,
     device_info |-> infoToJson(r.lastKnownInfo)]

\* DeviceRecord::fromJson
fromJson(obj) ==
    [present |-> TRUE, uniqueId |-> obj.unique_id, hash |-> obj.hash,
     hashAlgorithm |-> obj.hash_algorithm,
     firstSeen |-> fromIsoDate(obj.first_seen),
     lastSeen |-> fromIsoDate(obj.last_seen),
     lastHashed |-> fromIsoDate(obj.last_hashed),
     trustLevel |-> obj.trust_level, autoMount |-> obj.auto_mount,
     lastKnownInfo |-> infoFromJson(obj.device_info)]

\* A file: absent, or holding a JSON document with its "devices" array,
\* no byte at all ("empty"), the beginning of a document ("partial") or
\* bytes that are no JSON ("garbage").
NoFile == [exists |-> FALSE, kind |-> "", devices |-> {}]
JsonFile(devices) == [exists |-> TRUE, kind |-> "json", devices |-> devices]
EmptyFile == [exists |-> TRUE, kind |-> "empty", devices |-> {}]
PartialFile == [exists |-> TRUE, kind |-> "partial", devices |-> {}]
GarbageFile == [exists |-> TRUE, kind |-> "garbage", devices |-> {}]

\* The database directory: the database file, its ".tmp" companion and
\* the "_backup_<time>" files, newest first (QDir::Time).
NoDisk == [db |-> NoFile, tmp |-> NoFile, backups |-> <<>>]

\* The records of a table, and the document writeToFile builds from them.
recordsOf(db) == {db[id] : id \in {k \in DOMAIN db : db[k].present}}
documentOf(db) == JsonFile({toJson(r) : r \in recordsOf(db)})

\* QJsonDocument::fromJson succeeds on the bytes of the file.
parses(file) == file.exists /\ file.kind = "json"

\* The loop of loadFromFile: every record of the array whose uniqueId is
\* not empty is inserted over what the table holds.
insertLoaded(db, devices) ==
    [id \in DOMAIN db |->
        IF id # "" /\ \E obj \in devices : obj.unique_id = id
        THEN fromJson(CHOOSE obj \in devices : obj.unique_id = id)
        ELSE db[id]]

\* The loop of restoreFromBackup: every record of the array is inserted.
insertAll(db, devices) ==
    [id \in DOMAIN db |->
        IF \E obj \in devices : obj.unique_id = id
        THEN fromJson(CHOOSE obj \in devices : obj.unique_id = id)
        ELSE db[id]]

(* ------------------------------------------------------------------ *)
(* DatabaseManager: operations.  They take and leave the store as one  *)
(* value: the table, the dirty flag, m_initialized, the files, the     *)
(* signals emitted, the queued calls, the value returned (ret) and the *)
(* states the files went through inside the call (steps).              *)
(* ------------------------------------------------------------------ *)
MAX_BACKUP_COUNT == 5

CurStore == [db |-> db_devices, modified |-> m_modified,
             initialized |-> m_initialized, disk |-> disk,
             out |-> <<>>, posted |-> <<>>, steps |-> <<>>, ret |-> TRUE,
             count |-> 0, fail |-> "", arg |-> NoHash,
             lock |-> "none", held |-> <<>>, io |-> <<>>]

databaseError(st) == emit([st EXCEPT !.ret = FALSE], Eff("databaseError", ""))

\* m_devices.clear()
cleared(db) == [id \in DOMAIN db |-> NoRecord]

\* DatabaseManager::writeToFile; fail names the file operation that
\* fails: "open" of the temporary file, its "write", the "rename", or "".
writeToFile(st, fail) ==
    LET data == documentOf(st.db)
        opened == [st.disk EXCEPT !.tmp = EmptyFile]
        short == [st.disk EXCEPT !.tmp = PartialFile]
        dropped == [st.disk EXCEPT !.tmp = NoFile]
        written == [st.disk EXCEPT !.tmp = data]
        removed == [written EXCEPT !.db = NoFile]
        renamed == [removed EXCEPT !.db = data, !.tmp = NoFile]
        upToRename == IF st.disk.db.exists
                      THEN <<opened, written, removed>>
                      ELSE <<opened, written>>
    IN IF fail = "open"
       THEN databaseError([st EXCEPT !.fail = fail,
                                     !.io = Append(@, st.lock)])
       ELSE IF fail = "write"
            THEN databaseError([st EXCEPT
                     !.disk = dropped, !.fail = fail,
                     !.io = Append(@, st.lock),
                     !.steps = @ \o <<opened, short, dropped>>])
            ELSE IF fail = "rename"
                 THEN databaseError([st EXCEPT
                          !.disk = removed, !.fail = fail,
                          !.io = Append(@, st.lock),
                          !.steps = @ \o upToRename])
                 ELSE [st EXCEPT !.disk = renamed,
                                 !.io = Append(@, st.lock),
                                 !.steps = @ \o upToRename \o <<renamed>>,
                                 !.ret = TRUE]

\* A save that clears the dirty flag whether or not the file was written.
saveDatabaseClearsFlag(st, fail) ==
    IF ~st.initialized
    THEN unlock(databaseError(lockForWrite(st)))
    ELSE LET st1 == writeToFile(lockForWrite(st), fail)
         IN IF st1.ret
            THEN emit(unlock([st1 EXCEPT !.modified = FALSE]),
                      Eff("databaseSaved", ""))
            ELSE unlock([st1 EXCEPT !.modified = FALSE])

\* DatabaseManager::save
saveDatabase(st, fail) ==
    IF ~st.initialized
    THEN unlock(databaseError(lockForWrite(st)))
    ELSE LET st1 == writeToFile(lockForWrite(st), fail)
         IN IF st1.ret
            THEN emit(unlock([st1 EXCEPT !.modified = FALSE]),
                      Eff("databaseSaved", ""))
            ELSE unlock(st1)

\* DatabaseManager::loadFromFile
loadFromFile(st) ==
    LET file == st.disk.db
    IN IF ~file.exists
       THEN [st EXCEPT !.ret = FALSE]
       ELSE IF file.kind = "empty"
            THEN [st EXCEPT !.ret = TRUE]
            ELSE IF ~parses(file)
                 THEN [st EXCEPT !.ret = FALSE]
                 ELSE [st EXCEPT !.db = insertLoaded(@, file.devices),
                                 !.ret = TRUE]

\* An initialize that refuses to start on a file it cannot load.
initializeRefuses(st) ==
    LET loaded == loadFromFile(lockForWrite(st))
    IN IF st.disk.db.exists /\ ~loaded.ret
       THEN unlock(databaseError(loaded))
       ELSE unlock(emit([loaded EXCEPT !.initialized = TRUE,
                                       !.modified = FALSE, !.ret = TRUE],
                        Eff("databaseLoaded", "")))

\* DatabaseManager::initialize
initialize(st) ==
    LET loaded == loadFromFile(lockForWrite(st))
        st1 == IF ~st.disk.db.exists
               THEN lockForWrite(st)
               ELSE IF loaded.ret
                    THEN loaded
                    ELSE [databaseError(loaded) EXCEPT !.db = cleared(@)]
    IN unlock(emit([st1 EXCEPT !.initialized = TRUE, !.modified = FALSE,
                               !.ret = TRUE],
                   Eff("databaseLoaded", "")))

\* DatabaseManager::reload
reload(st) ==
    IF ~st.initialized
    THEN [st EXCEPT !.ret = FALSE]
    ELSE LET loaded == loadFromFile([st EXCEPT !.db = cleared(@)])
         IN IF loaded.ret
            THEN emit([loaded EXCEPT !.modified = FALSE],
                      Eff("databaseLoaded", ""))
            ELSE loaded

\* The "yyyyMMdd_hhmmss" of the name createBackup gives a backup.
backupStamp(t) == t \div MsPerSecond

\* DatabaseManager::createBackup with the default path.  QFile::copy
\* fails when a file of that name exists.
createBackup(st) ==
    LET stamp == backupStamp(now)
        old == st.disk.backups
        all == <<[stamp |-> stamp, mtime |-> now, file |-> st.disk.db]>>
               \o old
        kept == IF Len(all) > MAX_BACKUP_COUNT
                THEN SubSeq(all, 1, MAX_BACKUP_COUNT)
                ELSE all
    IN IF \/ ~st.initialized
          \/ ~st.disk.db.exists
          \/ \E i \in 1..Len(old) : old[i].stamp = stamp
       THEN [st EXCEPT !.ret = FALSE]
       ELSE [st EXCEPT !.disk.backups = kept, !.ret = TRUE]

\* The file at a path given to restoreFromBackup: the backup with stamp
\* path.stamp, or the file path.file from somewhere else.
fileAt(d, path) ==
    IF path.stamp < 0
    THEN path.file
    ELSE IF \E i \in 1..Len(d.backups) : d.backups[i].stamp = path.stamp
         THEN (CHOOSE b \in {d.backups[i] : i \in 1..Len(d.backups)} :
                   b.stamp = path.stamp).file
         ELSE NoFile

\* DatabaseManager::restoreFromBackup
restoreFromBackup(st, path, fail) ==
    IF ~fileAt(st.disk, path).exists
    THEN databaseError(st)
    ELSE LET st1 == [createBackup(st) EXCEPT !.ret = TRUE]
             file == fileAt(st1.disk, path)
         IN IF ~file.exists \/ ~parses(file)
            THEN unlock(databaseError(lockForWrite(st1)))
            ELSE LET st2 == writeToFile(
                                [lockForWrite(st1) EXCEPT
                                    !.db = insertAll(cleared(@), file.devices),
                                    !.modified = TRUE],
                                fail)
                 IN IF ~st2.ret
                    THEN unlock(databaseError(st2))
                    ELSE emit(unlock([st2 EXCEPT !.modified = FALSE]),
                              Eff("databaseLoaded", ""))

\* DatabaseManager::updateDevice
updateDevice(st, record) ==
    IF ~st.db[record.uniqueId].present
    THEN [st EXCEPT !.ret = FALSE]
    ELSE emit(markModified([st EXCEPT !.db[record.uniqueId] = record]),
              [Eff("deviceUpdated", "") EXCEPT !.id = record.uniqueId])

\* DatabaseManager::upsertDevice
upsertDevice(st, record) ==
    emit(markModified([st EXCEPT !.db[record.uniqueId] = record]),
         [Eff(IF st.db[record.uniqueId].present
              THEN "deviceUpdated" ELSE "deviceAdded", "")
             EXCEPT !.id = record.uniqueId])

\* DatabaseManager::removeDevices; ids is a list without repetitions
removeDevices(st, ids) ==
    LET gone == SelectSeq(ids, LAMBDA id : st.db[id].present)
        st1 == [st EXCEPT
                   !.db = [id \in DOMAIN @ |->
                              IF \E i \in 1..Len(gone) : gone[i] = id
                              THEN NoRecord ELSE @[id]],
                   !.count = Len(gone)]
        st2 == IF Len(gone) > 0 THEN markModified(st1) ELSE st1
    IN [st2 EXCEPT !.out = @ \o [i \in 1..Len(gone) |->
                                    [Eff("deviceRemoved", "") EXCEPT
                                        !.id = gone[i]]],
                   !.held = @ \o [i \in 1..Len(gone) |-> st2.lock]]

\* DatabaseManager::removeDevice
removeDevice(st, id) ==
    IF ~st.db[id].present
    THEN [st EXCEPT !.ret = FALSE]
    ELSE emit(markModified([st EXCEPT !.db[id] = NoRecord]),
              [Eff("deviceRemoved", "") EXCEPT !.id = id])

\* DatabaseManager::clearAllDevices; keys is m_devices.keys()
clearAllDevices(st, keys) ==
    LET st1 == markModified([st EXCEPT !.db = cleared(@)])
    IN [st1 EXCEPT !.out = @ \o [i \in 1..Len(keys) |->
                                    [Eff("deviceRemoved", "") EXCEPT
                                        !.id = keys[i]]],
                   !.held = @ \o [i \in 1..Len(keys) |-> st1.lock]]

\* DatabaseManager::setTrustLevel
setTrustLevel(st, id, level) ==
    IF ~st.db[id].present
    THEN [st EXCEPT !.ret = FALSE]
    ELSE emit(markModified([st EXCEPT !.db[id].trustLevel = level]),
              [Eff("deviceUpdated", "") EXCEPT !.id = id])

\* DatabaseManager::setAutoMount
setAutoMount(st, id, autoMount) ==
    IF ~st.db[id].present
    THEN [st EXCEPT !.ret = FALSE]
    ELSE emit(markModified([st EXCEPT !.db[id].autoMount = autoMount]),
              [Eff("deviceUpdated", "") EXCEPT !.id = id])

\* DatabaseManager::importFromFile; the array of file holds no two
\* records of one uniqueId.
importFromFile(st, file, merge) ==
    IF ~file.exists \/ ~parses(file)
    THEN [databaseError(st) EXCEPT !.count = -1]
    ELSE LET base == IF merge THEN st.db ELSE cleared(st.db)
             new == {obj \in file.devices : ~base[obj.unique_id].present}
             st1 == [st EXCEPT !.db = insertAll(base, new),
                               !.count = Cardinality(new)]
         IN IF Cardinality(new) > 0 THEN markModified(st1) ELSE st1

\* DatabaseManager::compact
compact(st) ==
    LET toRemove == {id \in DOMAIN st.db : /\ st.db[id].present
                                           /\ st.db[id].uniqueId = ""}
        st1 == [st EXCEPT !.db = [id \in DOMAIN @ |->
                                     IF id \in toRemove THEN NoRecord
                                     ELSE @[id]]]
    IN IF toRemove # {} THEN markModified(st1) ELSE st1

(* ------------------------------------------------------------------ *)
(* State after construction                                            *)
(* ------------------------------------------------------------------ *)
NodeSeq == <<"/dev/sdb1", "/dev/sdb2">>

NoPhys == [present |-> FALSE, dev |-> NoTriple, content |-> "",
           mounted |-> FALSE]

\* A record loaded from the database file.
KnownRecord(hash, trust) ==
    [present |-> TRUE, hash |-> hash, hashAlgorithm |-> "SHA256",
     firstSeen |-> 0, lastSeen |-> 0,
     lastHashed |-> IF hash = NoHash THEN -1 ELSE 0,
     trustLevel |-> trust, autoMount |-> FALSE]

\* The tables DatabaseManager::initialize may load: no record; DevA with
\* the digest of "x" stored in upper case; DevA trusted, never hashed.
InitialStores ==
    { [id \in Ids |-> NoRecord],
      [id \in Ids |-> IF id = uniqueId(DevA)
                      THEN KnownRecord(toUpper(Digest("x")), 0)
                      ELSE NoRecord],
      [id \in Ids |-> IF id = uniqueId(DevA)
                      THEN KnownRecord(NoHash, 2)
                      ELSE NoRecord] }

\* AppSettings as MainWindow::loadSettings may read them.
Settings ==
    [autoHashOnConnect : BOOLEAN, autoHashOnEject : BOOLEAN,
     requireConfirmationForNew : BOOLEAN, blockModifiedDevices : BOOLEAN,
     defaultTrustLevel : {1}, hashAlgorithm : {"SHA256"},
     maxConcurrentHashes : {1}]

DefaultSettings ==
    [autoHashOnConnect |-> TRUE, autoHashOnEject |-> TRUE,
     requireConfirmationForNew |-> TRUE, blockModifiedDevices |-> FALSE,
     defaultTrustLevel |-> 0, hashAlgorithm |-> "SHA256",
     maxConcurrentHashes |-> 1]

NoHist == [blocked |-> [n \in Nodes |-> FALSE],
           disc |-> {},
           unknown |-> [n \in Nodes |-> FALSE],
           accepted |-> [n \in Nodes |-> FALSE],
           connJob |-> [n \in Nodes |-> 0]]

NoLast == [op |-> "init", node |-> "", job |-> 0, id |-> "",
           known |-> FALSE, stored |-> NoHash, computed |-> NoHash,
           answer |-> FALSE, connected |-> FALSE, hadCard |-> FALSE,
           wasMounted |-> FALSE, db |-> [id \in Ids |-> NoRecord],
           modified |-> FALSE, pre |-> NoHist, wasCancelled |-> FALSE,
           jobCount |-> 0]

\* HashResult before executeHash has filled it in.
NoResult == [success |-> FALSE, hash |-> NoHash, algorithm |-> "",
             errorMessage |-> "", bytesProcessed |-> 0]

\* No job in m_jobs: the fields of JobState, the HashJob it was started with,
\* and the locals of the function that is hashing it.
NoHashing == [pc |-> "none", deviceNode |-> "", algorithm |-> "",
              bufferSizeKB |-> 0, useMemoryMapping |-> FALSE,
              totalBytes |-> 0, bytesProcessed |-> 0, cancelled |-> FALSE,
              startedOn |-> "none", fd |-> "none", md |-> "",
              offset |-> 0, ctx |-> <<>>, result |-> NoResult]

\* Everything but the loaded settings and table, and the length of the run.
Constructed ==
    /\ phys = [n \in Nodes |-> NoPhys]
    /\ udevq = <<>>
    /\ mon_devices = [n \in Nodes |-> NoDevice]
    /\ m_rescanRequested = FALSE
    /\ mainq = <<>>
    /\ m_deviceCards = [n \in Nodes |-> NoCard]
    /\ m_modified = FALSE
    /\ m_jobs = [j \in JobIds |-> NoJob]
    /\ m_jobCounter = 0
    /\ m_hashJobDevices = [j \in JobIds |-> ""]
    /\ m_activeHashCount = 0
    /\ now = 1
    /\ out = <<>>
    /\ last = NoLast
    /\ hist = NoHist
    /\ hashing = NoHashing
    /\ m_progressTimer = FALSE

\* The threads that call the monitor.
Callers == {"c1", "c2"}

\* The monitor as constructed, and as it is once startMonitoring has run
\* and the thread has entered its loop after its first scan.
NotStarted ==
    /\ m_running = FALSE
    /\ thread = [state |-> "none", runs |-> 0]
    /\ callers = [c \in Callers |-> "idle"]
    /\ m_wakeupPipe = 0
Monitoring ==
    /\ m_running = TRUE
    /\ thread = [state |-> "loop", runs |-> 1]
    /\ callers = [c \in Callers |-> "idle"]
    /\ m_wakeupPipe = 0

\* The runs of the whole application: the hasher's limit as loadSettings
\* sets it, a pool with a thread for every job, and the store initialized;
\* these runs take the outcome of each save as an input and do not follow
\* the files.
Application ==
    /\ Monitoring
    /\ maxThreadCount = MaxJobs
    /\ m_maxConcurrent = setMaxConcurrent(m_settings.maxConcurrentHashes)
    /\ m_initialized = TRUE
    /\ disk = NoDisk

\* Any settings, any of the tables.
Init ==
    /\ Constructed
    /\ db_devices \in InitialStores
    /\ m_settings \in Settings
    /\ budget = [phys |-> MaxPhys, user |-> MaxUser]
    /\ Application

\* The settings of a first start (AppSettings' member initialisers), a
\* table that holds a hash, and a longer run.
InitDefault ==
    /\ Constructed
    /\ db_devices \in {d \in InitialStores : d[uniqueId(DevA)].hash # NoHash}
    /\ m_settings = DefaultSettings
    /\ budget = [phys |-> MaxDeep, user |-> MaxUser]
    /\ Application

mainVars == <<m_deviceCards, db_devices, m_modified, m_jobs,
              m_jobCounter, m_hashJobDevices, m_activeHashCount, out, last,
              hist, workerVars, fileVars, threadVars, hashing,
                   m_progressTimer>>

(* ------------------------------------------------------------------ *)
(* The world outside the program                                       *)
(* ------------------------------------------------------------------ *)

\* A partition appears: the kernel sends an "add" notification.
Plug(n, t, c) ==
    /\ budget.phys > 0
    /\ ~phys[n].present
    /\ phys' = [phys EXCEPT ![n] = [present |-> TRUE, dev |-> t,
                                    content |-> c, mounted |-> FALSE]]
    /\ udevq' = Append(udevq, [action |-> "add", node |-> n, dev |-> t])
    /\ budget' = [budget EXCEPT !.phys = @ - 1]
    /\ UNCHANGED <<mon_devices, m_rescanRequested, mainq, m_settings, now>>
    /\ UNCHANGED mainVars

\* The partition goes away: the kernel sends a "remove" notification.
Unplug(n) ==
    /\ budget.phys > 0
    /\ phys[n].present
    /\ phys' = [phys EXCEPT ![n] = NoPhys]
    /\ udevq' = Append(udevq, [action |-> "remove", node |-> n,
                               dev |-> phys[n].dev])
    /\ budget' = [budget EXCEPT !.phys = @ - 1]
    /\ UNCHANGED <<mon_devices, m_rescanRequested, mainq, m_settings, now>>
    /\ UNCHANGED mainVars

\* The partition is mounted or unmounted.  When the mount manager did it,
\* MainWindow::onMountCompleted / onUnmountCompleted call
\* DeviceMonitor::rescan; when something else did it, nothing is told.
MountChange(n, viaApp) ==
    /\ budget.phys > 0
    /\ phys[n].present
    /\ phys' = [phys EXCEPT ![n].mounted = ~@]
    /\ m_rescanRequested' = (m_rescanRequested \/ viaApp)
    /\ budget' = [budget EXCEPT !.phys = @ - 1]
    /\ UNCHANGED <<udevq, mon_devices, mainq, m_settings, now>>
    /\ UNCHANGED mainVars

\* The kernel sends a "change" notification for a partition.
UdevChange(n) ==
    /\ budget.phys > 0
    /\ phys[n].present
    /\ udevq' = Append(udevq, [action |-> "change", node |-> n,
                               dev |-> phys[n].dev])
    /\ budget' = [budget EXCEPT !.phys = @ - 1]
    /\ UNCHANGED <<phys, mon_devices, m_rescanRequested, mainq, m_settings,
                   now>>
    /\ UNCHANGED mainVars

\* The wall clock advances.
Tick ==
    /\ budget.phys > 0
    /\ now < MaxClock + 1
    /\ now' = now + 1
    /\ budget' = [budget EXCEPT !.phys = @ - 1]
    /\ UNCHANGED <<phys, udevq, mon_devices, m_rescanRequested, mainq,
                   m_settings>>
    /\ UNCHANGED mainVars

(* ------------------------------------------------------------------ *)
(* DeviceMonitor thread                                                *)
(* ------------------------------------------------------------------ *)

\* DeviceMonitor::extractDeviceInfo: identity from the notification,
\* isMounted from /proc/mounts at the time of the call.
extractDeviceInfo(n, t) ==
    DeviceInfo(n, t, phys[n].present /\ phys[n].mounted)

\* DeviceMonitor::processUdevEvent
processUdevEvent ==
    /\ udevq # <<>>
    /\ LET e == Head(udevq)
           info == extractDeviceInfo(e.node, e.dev)
       IN CASE e.action = "add" ->
                 /\ mon_devices' = [mon_devices EXCEPT ![e.node] = info]
                 /\ mainq' = Append(mainq, Ev("deviceConnected", e.node,
                                              info, 0))
            [] e.action = "remove" ->
                 /\ mon_devices' = [mon_devices EXCEPT ![e.node] = NoDevice]
                 /\ mainq' = Append(mainq, Ev("deviceDisconnected", e.node,
                                              NoDevice, 0))
            [] OTHER ->
                 /\ mon_devices' = [mon_devices EXCEPT ![e.node] = info]
                 /\ mainq' = Append(mainq, Ev("deviceChanged", e.node,
                                              info, 0))
    /\ udevq' = Tail(udevq)
    /\ UNCHANGED <<phys, m_rescanRequested, m_settings, now, budget>>
    /\ UNCHANGED mainVars

\* scanExistingDevices, first loop: one enumerated partition
scanOne(tab, n) ==
    LET info == extractDeviceInfo(n, phys[n].dev)
    IN IF ~phys[n].present
       THEN [devices |-> tab.devices, events |-> tab.events]
       ELSE IF ~tab.devices[n].present
            THEN [devices |-> [tab.devices EXCEPT ![n] = info],
                  events |-> Append(tab.events,
                                    Ev("deviceConnected", n, info, 0))]
            ELSE IF tab.devices[n].isMounted # info.isMounted
                 THEN [devices |-> [tab.devices EXCEPT ![n] = info],
                       events |-> Append(tab.events,
                                         Ev("deviceChanged", n, info, 0))]
                 ELSE tab

\* scanExistingDevices, second loop: one entry of m_devices
scanRemove(tab, n) ==
    IF tab.devices[n].present /\ ~phys[n].present
    THEN [devices |-> [tab.devices EXCEPT ![n] = NoDevice],
          events |-> Append(tab.events,
                            Ev("deviceDisconnected", n, NoDevice, 0))]
    ELSE tab

\* The two loops over sequences of nodes
RECURSIVE scanAll(_, _)
scanAll(tab, ns) ==
    IF ns = <<>> THEN tab ELSE scanAll(scanOne(tab, Head(ns)), Tail(ns))

RECURSIVE scanRemoved(_, _)
scanRemoved(tab, ns) ==
    IF ns = <<>> THEN tab ELSE scanRemoved(scanRemove(tab, Head(ns)), Tail(ns))

\* DeviceMonitor::scanExistingDevices on a rescan request; keys is the
\* order of m_devices.keys().
scanExistingDevices(keys) ==
    /\ m_rescanRequested
    /\ m_rescanRequested' = FALSE
    /\ LET t0 == [devices |-> mon_devices, events |-> mainq]
           t1 == scanAll(t0, NodeSeq)
           t2 == scanRemoved(t1, keys)
       IN /\ mon_devices' = t2.devices
          /\ mainq' = t2.events
    /\ UNCHANGED <<phys, udevq, m_settings, now, budget>>
    /\ UNCHANGED mainVars

(* ------------------------------------------------------------------ *)
(* Thread pool                                                         *)
(* ------------------------------------------------------------------ *)

\* The jobs a pool thread is executing: QtConcurrent::run queues the job
\* to the global pool, whose threads take the queued jobs in order.
Executing ==
    LET pending == {j \in JobIds : /\ m_jobs[j].present
                                   /\ m_jobs[j].result = "pending"}
    IN {j \in pending :
           Cardinality({k \in pending : k < j}) < maxThreadCount}

\* HashWorker::executeHash of job j to its end; io is whether the reads
\* succeed.  The watcher's finished() is posted to the main thread.
executeHash(j, io) ==
    /\ j \in Executing
    /\ LET n == m_jobs[j].deviceNode
           res == IF m_jobs[j].cancelled THEN "cancelled"
                  ELSE IF ~phys[n].present \/ ~io THEN "failed"
                  ELSE "ok"
       IN /\ (m_jobs[j].cancelled \/ ~phys[n].present) => io
          /\ m_jobs' = [m_jobs EXCEPT
                           ![j].result = res,
                           ![j].hash = IF res = "ok"
                                       THEN Digest(phys[n].content)
                                       ELSE NoHash]
          /\ mainq' = Append(mainq, Ev("finished", n, NoDevice, j))
    /\ UNCHANGED <<phys, udevq, mon_devices, m_rescanRequested, m_settings,
                   now, budget>>
    /\ UNCHANGED <<m_deviceCards, db_devices, m_modified, m_jobCounter,
                   m_hashJobDevices, m_activeHashCount, out, last, hist,
                   workerVars, fileVars, threadVars, hashing,
                   m_progressTimer>>


(* ------------------------------------------------------------------ *)
(* Main thread                                                         *)
(* ------------------------------------------------------------------ *)

\* The jobs m_hashJobDevices maps to node n.
jobsOfNode(n) == {k \in JobIds : m_hashJobDevices[k] = n}

\* What the handler about to run finds: the device it is about (the
\* event's DeviceInfo, or the monitor's entry), its record, its card.
LastOf(op, n, info, j, answer) ==
    LET id == IF info.present THEN uniqueId(info) ELSE ""
        known == id \in Ids /\ db_devices[id].present
    IN [op |-> op, node |-> n, job |-> j, id |-> id, known |-> known,
        stored |-> IF known THEN db_devices[id].hash ELSE NoHash,
        computed |-> IF j \in JobIds THEN m_jobs[j].hash ELSE NoHash,
        answer |-> answer, connected |-> info.present,
        hadCard |-> m_deviceCards[n].present,
        wasMounted |-> info.isMounted, db |-> db_devices,
        modified |-> m_modified, pre |-> hist,
        wasCancelled |-> j \in JobIds /\ m_jobs[j].cancelled,
        jobCount |-> activeJobCount(m_jobs)]

\* TRUE when the effects of st include one of kind k for node n.
Has(st, k, n) == \E i \in 1..Len(st.out) : st.out[i].k = k /\ st.out[i].node = n

\* The history after handler op has left st.
HistNext(op, n, known, j, answer, st) ==
    [blocked |-> [m \in Nodes |->
        IF m # n THEN hist.blocked[m]
        ELSE IF op = "deviceDisconnected" THEN FALSE
        ELSE IF op = "finished" /\ Has(st, "hashCompleted", n)
             THEN IF st.cards[m].status = "Modified"
                  THEN m_settings.blockModifiedDevices
                  ELSE IF st.cards[m].status = "Verified"
                       THEN FALSE
                       ELSE hist.blocked[m]
             ELSE hist.blocked[m]],
     disc |-> IF op = "deviceDisconnected"
              THEN hist.disc \cup {k \in JobIds : /\ m_jobs[k].present
                                                  /\ m_jobs[k].deviceNode = n}
              ELSE IF op = "finished" THEN hist.disc \ {j} ELSE hist.disc,
     unknown |-> [m \in Nodes |->
        IF m # n THEN hist.unknown[m]
        ELSE IF op = "deviceConnected" THEN ~known
        ELSE IF op = "deviceDisconnected" THEN FALSE
        ELSE hist.unknown[m]],
     accepted |-> [m \in Nodes |->
        IF m # n THEN hist.accepted[m]
        ELSE IF op = "deviceConnected"
             THEN Has(st, "newDeviceDialog", n) /\ answer
        ELSE IF op = "deviceDisconnected" THEN FALSE
        ELSE hist.accepted[m]],
     connJob |-> [m \in Nodes |->
        IF m = n /\ op = "deviceConnected" /\ known
                 /\ m_settings.autoHashOnConnect
        THEN st.jobCounter
        ELSE IF op = "finished" /\ hist.connJob[m] = j THEN 0
        ELSE hist.connJob[m]]]

\* One handler of the main thread has run from Cur to st.
MainDo(op, n, info, j, answer, st, rest) ==
    /\ st.ok
    /\ mainq' = rest \o st.posted
    /\ m_deviceCards' = st.cards
    /\ db_devices' = st.db
    /\ m_modified' = st.modified
    /\ m_jobs' = st.jobs
    /\ m_jobCounter' = st.jobCounter
    /\ m_hashJobDevices' = st.hjd
    /\ m_activeHashCount' = st.active
    /\ out' = st.out
    /\ last' = LastOf(op, n, info, j, answer)
    /\ hist' = HistNext(op, n, LastOf(op, n, info, j, answer).known, j,
                        answer, st)
    /\ m_progressTimer' = st.timer
    /\ UNCHANGED <<workerVars, fileVars, threadVars, hashing>>

\* deviceConnected delivered to MainWindow::onDeviceConnected
DeviceConnected(answer) ==
    /\ mainq # <<>>
    /\ Head(mainq).type = "deviceConnected"
    /\ LET e == Head(mainq)
       IN /\ answer => onDeviceConnected(Cur, e.info, TRUE)
                           # onDeviceConnected(Cur, e.info, FALSE)
          /\ MainDo("deviceConnected", e.node, e.info, 0, answer,
                    onDeviceConnected(Cur, e.info, answer), Tail(mainq))
    /\ UNCHANGED <<phys, udevq, mon_devices, m_rescanRequested, m_settings,
                   now, budget>>

\* deviceDisconnected delivered to MainWindow::onDeviceDisconnected; pick
\* is the job of the node that comes first in m_hashJobDevices.
DeviceDisconnected(pick) ==
    /\ mainq # <<>>
    /\ Head(mainq).type = "deviceDisconnected"
    /\ LET e == Head(mainq)
       IN /\ IF jobsOfNode(e.node) = {} THEN pick = 0
             ELSE pick \in jobsOfNode(e.node)
          /\ MainDo("deviceDisconnected", e.node, NoDevice, pick, FALSE,
                    onDeviceDisconnected(Cur, e.node, pick), Tail(mainq))
    /\ UNCHANGED <<phys, udevq, mon_devices, m_rescanRequested, m_settings,
                   now, budget>>

\* deviceChanged delivered to MainWindow::onDeviceChanged
DeviceChanged ==
    /\ mainq # <<>>
    /\ Head(mainq).type = "deviceChanged"
    /\ LET e == Head(mainq)
       IN MainDo("deviceChanged", e.node, e.info, 0, FALSE,
                 onDeviceChanged(Cur, e.info), Tail(mainq))
    /\ UNCHANGED <<phys, udevq, mon_devices, m_rescanRequested, m_settings,
                   now, budget>>

\* QFutureWatcher::finished delivered to HashWorker::onJobFinished
JobFinished(answer) ==
    /\ mainq # <<>>
    /\ Head(mainq).type = "finished"
    /\ LET e == Head(mainq)
           n == m_hashJobDevices[e.job]
       IN /\ answer => onJobFinished(Cur, e.job, TRUE)
                           # onJobFinished(Cur, e.job, FALSE)
          /\ MainDo("finished", n, mon_devices[n], e.job, answer,
                    onJobFinished(Cur, e.job, answer), Tail(mainq))
    /\ UNCHANGED <<phys, udevq, mon_devices, m_rescanRequested, m_settings,
                   now, budget>>

\* The user presses a button of the card of node n.
UserStep(op, n, st) ==
    /\ budget.user > 0
    /\ m_deviceCards[n].present
    /\ budget' = [budget EXCEPT !.user = @ - 1]
    /\ MainDo(op, n, mon_devices[n], 0, FALSE, st, mainq)
    /\ UNCHANGED <<phys, udevq, mon_devices, m_rescanRequested, m_settings,
                   now>>

\* Mount button (visible while the card shows the device unmounted)
MountRequested(n) ==
    /\ ~m_deviceCards[n].device.isMounted
    /\ UserStep("mountRequested", n, onMountRequested(Cur, n))

\* Unmount button (visible while the card shows the device mounted)
UnmountRequested(n) ==
    /\ m_deviceCards[n].device.isMounted
    /\ UserStep("unmountRequested", n, onUnmountRequested(Cur, n))

\* Eject button of the card, or the device's entry of the tray menu
EjectRequested(n) == UserStep("ejectRequested", n, onEjectRequested(Cur, n))

\* Rehash button
RehashRequested(n) ==
    /\ m_deviceCards[n].rehashEnabled
    /\ UserStep("rehashRequested", n, onRehashRequested(Cur, n))

\* MainWindow::onRefreshClicked
RefreshClicked ==
    /\ budget.user > 0
    /\ ~m_rescanRequested
    /\ m_rescanRequested' = TRUE
    /\ budget' = [budget EXCEPT !.user = @ - 1]
    /\ out' = <<[Eff("log", "") EXCEPT !.level = "Info"]>>
    /\ last' = [NoLast EXCEPT !.op = "refreshClicked", !.db = db_devices,
                              !.modified = m_modified, !.pre = hist]
    /\ UNCHANGED <<phys, udevq, mon_devices, mainq, m_settings, now,
                   m_deviceCards, db_devices, m_modified, m_jobs,
                   m_jobCounter, m_hashJobDevices, m_activeHashCount, hist,
                   workerVars, fileVars, threadVars, hashing,
                   m_progressTimer>>

\* DatabaseManager::save as queued by markModified; written is the
\* result of writeToFile.
save(written) ==
    /\ mainq # <<>>
    /\ Head(mainq).type = "save"
    /\ mainq' = Tail(mainq)
    /\ m_modified' = IF written THEN FALSE ELSE m_modified
    /\ out' = IF written THEN <<Eff("databaseSaved", "")>> ELSE <<>>
    /\ last' = [NoLast EXCEPT !.op = "save", !.db = db_devices,
                              !.modified = m_modified, !.pre = hist]
    /\ UNCHANGED <<phys, udevq, mon_devices, m_rescanRequested,
                   m_settings, now, budget, m_deviceCards, db_devices, m_jobs,
                   m_jobCounter, m_hashJobDevices, m_activeHashCount, hist,
                   workerVars, fileVars, threadVars, hashing,
                   m_progressTimer>>

\* The orders QHash::keys() may list the nodes in.
Orders == {ns \in [1..Cardinality(Nodes) -> Nodes] :
              \A n \in Nodes : \E i \in DOMAIN ns : ns[i] = n}

Next ==
    \/ \E n \in OnePartition, t \in Devs, c \in Contents : Plug(n, t, c)
    \/ \E n \in Nodes : Unplug(n)
    \/ \E n \in Nodes, viaApp \in BOOLEAN : MountChange(n, viaApp)
    \/ \E n \in Nodes : UdevChange(n)
    \/ Tick
    \/ processUdevEvent
    \/ \E keys \in Orders : scanExistingDevices(keys)
    \/ \E j \in JobIds, io \in BOOLEAN : executeHash(j, io)
    \/ \E answer \in BOOLEAN : DeviceConnected(answer)
    \/ \E pick \in 0..MaxJobs : DeviceDisconnected(pick)
    \/ DeviceChanged
    \/ \E answer \in BOOLEAN : JobFinished(answer)
    \/ \E n \in Nodes : MountRequested(n)
    \/ \E n \in Nodes : UnmountRequested(n)
    \/ \E n \in Nodes : EjectRequested(n)
    \/ \E n \in Nodes : RehashRequested(n)
    \/ RefreshClicked
    \/ \E written \in BOOLEAN : save(written)

Spec == Init /\ [][Next]_vars

SpecDefault == InitDefault /\ [][Next]_vars

\* The steps of the program itself: the monitor thread, the pool threads
\* and the main thread's event loop.  None of them waits for ever.
Program ==
    \/ processUdevEvent
    \/ \E keys \in Orders : scanExistingDevices(keys)
    \/ \E j \in JobIds, io \in BOOLEAN : executeHash(j, io)
    \/ \E answer \in BOOLEAN : DeviceConnected(answer)
    \/ \E pick \in 0..MaxJobs : DeviceDisconnected(pick)
    \/ DeviceChanged
    \/ \E answer \in BOOLEAN : JobFinished(answer)
    \/ \E written \in BOOLEAN : save(written)

\* The default settings and a table that holds a hash, in a short run.
InitLive ==
    /\ Constructed
    /\ db_devices \in {d \in InitialStores : d[uniqueId(DevA)].hash # NoHash}
    /\ m_settings = DefaultSettings
    /\ budget = [phys |-> MaxPhys, user |-> MaxUser]
    /\ Application

\* The stick is plugged, mounted or pulled, and the user asks for an
\* unmount; the program's own steps are taken as long as one is possible.
NextLive ==
    \/ \E n \in OnePartition, t \in Devs, c \in Contents : Plug(n, t, c)
    \/ \E n \in OnePartition : Unplug(n)
    \/ \E n \in OnePartition, viaApp \in BOOLEAN : MountChange(n, viaApp)
    \/ \E n \in OnePartition : UnmountRequested(n)
    \/ processUdevEvent
    \/ \E j \in JobIds, io \in BOOLEAN : executeHash(j, io)
    \/ \E answer \in BOOLEAN : DeviceConnected(answer)
    \/ \E pick \in 0..MaxJobs : DeviceDisconnected(pick)
    \/ \E answer \in BOOLEAN : JobFinished(answer)
    \/ \E written \in BOOLEAN : save(written)

SpecLive == InitLive /\ [][NextLive]_vars /\ WF_vars(Program)

(* ------------------------------------------------------------------ *)
(* A stick with two partitions on a first start: the store is empty,   *)
(* both partitions appear, each with its own content, and nothing is   *)
(* written to either of them or taken away.                            *)
(* ------------------------------------------------------------------ *)
MaxPartitions == 2    \* partitions that appear

InitParts ==
    /\ Constructed
    /\ db_devices = [id \in Ids |-> NoRecord]
    /\ m_settings \in {g \in Settings : g.autoHashOnConnect}
    /\ budget = [phys |-> MaxPartitions, user |-> 0]
    /\ Application

NextParts ==
    \/ \E n \in Nodes, c \in Contents : Plug(n, DevA, c)
    \/ processUdevEvent
    \/ \E j \in JobIds, io \in BOOLEAN : executeHash(j, io)
    \/ \E answer \in BOOLEAN : DeviceConnected(answer)
    \/ \E answer \in BOOLEAN : JobFinished(answer)
    \/ \E written \in BOOLEAN : save(written)

SpecParts == InitParts /\ [][NextParts]_vars

(* ------------------------------------------------------------------ *)
(* The hasher called directly: startHash, cancelHash and cancelAll as  *)
(* any caller of HashWorker may use them, on any pool and limit.       *)
(* ------------------------------------------------------------------ *)

\* What a direct call finds before it runs.
CallLast(op, j) ==
    [NoLast EXCEPT !.op = op, !.job = j, !.db = db_devices,
                   !.modified = m_modified, !.pre = hist,
                   !.wasCancelled = j \in JobIds /\ m_jobs[j].cancelled,
                   !.jobCount = activeJobCount(m_jobs)]

\* HashWorker::startHash for node n, with the slot of hashStarted
StartHashCall(n) ==
    /\ MainDo("startHash", n, mon_devices[n], 0, FALSE, startHash(Cur, n),
              mainq)
    /\ UNCHANGED <<phys, udevq, mon_devices, m_rescanRequested, m_settings,
                   now, budget>>

\* HashWorker::cancelHash(j)
CancelHashCall(j) ==
    /\ m_jobs' = cancelHash(Cur, j).jobs
    /\ out' = <<>>
    /\ last' = CallLast("cancelHash", j)
    /\ UNCHANGED <<phys, udevq, mon_devices, m_rescanRequested, mainq,
                   m_settings, now, budget, m_deviceCards, db_devices,
                   m_modified, m_jobCounter, m_hashJobDevices,
                   m_activeHashCount, hist, workerVars, fileVars,
                   threadVars, hashing,
                   m_progressTimer>>

\* HashWorker::cancelAll()
CancelAllCall ==
    /\ m_jobs' = cancelAll(Cur).jobs
    /\ out' = <<>>
    /\ last' = CallLast("cancelAll", 0)
    /\ UNCHANGED <<phys, udevq, mon_devices, m_rescanRequested, mainq,
                   m_settings, now, budget, m_deviceCards, db_devices,
                   m_modified, m_jobCounter, m_hashJobDevices,
                   m_activeHashCount, hist, workerVars, fileVars,
                   threadVars, hashing,
                   m_progressTimer>>

\* The limits setMaxConcurrent may be given, and the pools of the machines.
InitWorker ==
    /\ Constructed
    /\ NotStarted
    /\ db_devices = [id \in Ids |-> NoRecord]
    /\ m_settings = DefaultSettings
    /\ budget = [phys |-> MaxPhys, user |-> 0]
    /\ maxThreadCount \in 1..MaxJobs
    /\ m_maxConcurrent \in {setMaxConcurrent(max) : max \in 0..MaxJobs}
    /\ m_initialized = TRUE
    /\ disk = NoDisk

NextWorker ==
    \/ \E n \in OnePartition, t \in Devs, c \in Contents : Plug(n, t, c)
    \/ \E n \in Nodes : Unplug(n)
    \/ \E n \in Nodes : StartHashCall(n)
    \/ \E j \in JobIds : CancelHashCall(j)
    \/ CancelAllCall
    \/ \E j \in JobIds, io \in BOOLEAN : executeHash(j, io)
    \/ \E answer \in BOOLEAN : JobFinished(answer)

SpecWorker == InitWorker /\ [][NextWorker]_vars

MaxJobPhys == 2   \* times the stick is plugged or pulled

\* HashWorker::updateProgress: a hashProgress for every job of m_jobs
\* whose totalBytes is not 0; sized is the set of those jobs.
RECURSIVE progressFrom(_, _, _)
progressFrom(st, sized, j) ==
    IF j > MaxJobs
    THEN st
    ELSE progressFrom(
             IF st.jobs[j].present /\ j \in sized
             THEN emit(st, [Eff("hashProgress", st.jobs[j].deviceNode)
                               EXCEPT !.job = j])
             ELSE st,
             sized, j + 1)
updateProgress(st, sized) == progressFrom(st, sized, 1)

\* The timeout of m_progressTimer, which fires while the timer is active.
ProgressTimeout(sized) ==
    /\ m_progressTimer
    /\ \A j \in sized : m_jobs[j].present
    /\ out' = updateProgress(Cur, sized).out
    /\ last' = CallLast("updateProgress", 0)
    /\ UNCHANGED <<phys, udevq, mon_devices, m_rescanRequested, mainq,
                   m_settings, now, budget, m_deviceCards, db_devices,
                   m_modified, m_jobs, m_jobCounter, m_hashJobDevices,
                   m_activeHashCount, hist, workerVars, fileVars,
                   threadVars, hashing, m_progressTimer>>

\* The hasher with its progress timer.  The pool runs every job it was
\* given and the event loop delivers every finished() it was posted.
InitJobs ==
    /\ Constructed
    /\ NotStarted
    /\ db_devices = [id \in Ids |-> NoRecord]
    /\ m_settings = DefaultSettings
    /\ budget = [phys |-> MaxJobPhys, user |-> 0]
    /\ maxThreadCount \in 1..MaxJobs
    /\ m_maxConcurrent = setMaxConcurrent(m_settings.maxConcurrentHashes)
    /\ m_initialized = TRUE
    /\ disk = NoDisk

NextJobs ==
    \/ \E n \in OnePartition, c \in Contents : Plug(n, DevA, c)
    \/ \E n \in OnePartition : Unplug(n)
    \/ \E n \in OnePartition : StartHashCall(n)
    \/ \E j \in JobIds : CancelHashCall(j)
    \/ CancelAllCall
    \/ \E j \in JobIds, io \in BOOLEAN : executeHash(j, io)
    \/ \E answer \in BOOLEAN : JobFinished(answer)
    \/ \E sized \in SUBSET JobIds : ProgressTimeout(sized)

SpecJobs ==
    /\ InitJobs
    /\ [][NextJobs]_vars
    /\ WF_vars(\E j \in JobIds, io \in BOOLEAN : executeHash(j, io))
    /\ WF_vars(\E answer \in BOOLEAN : JobFinished(answer))

(* ------------------------------------------------------------------ *)
(* The store called directly: the public operations of                 *)
(* DatabaseManager as any caller may use them, from its construction,  *)
(* with the files it reads and writes.  A call queued by markModified  *)
(* runs as a later step.                                               *)
(* ------------------------------------------------------------------ *)
MaxCalls == 3     \* calls of the store's operations

\* The database file a start may find: none, one written by an earlier
\* run, one that is no JSON, one without a byte.
StoredRecord ==
    DeviceRecord(uniqueId(DevA), toUpper(Digest("x")), 0, 1,
                 DeviceInfo("/dev/sdb1", DevA, FALSE))
InitialDisks ==
    {[NoDisk EXCEPT !.db = file] :
        file \in {NoFile, JsonFile({toJson(StoredRecord)}), GarbageFile,
                  EmptyFile}}

\* The records a caller passes: the one handleNewDevice builds for a
\* device it sees unmounted or mounted, and a default-constructed one.
InputRecords ==
    {DeviceRecord(uniqueId(DevA), NoHash, now,
                  m_settings.defaultTrustLevel,
                  DeviceInfo("/dev/sdb1", DevA, mounted)) :
        mounted \in BOOLEAN}
    \cup {DeviceRecord("", NoHash, -1, 0, DefaultInfo)}

\* Files from elsewhere given to importFromFile and restoreFromBackup.
ExternalFiles ==
    {NoFile, GarbageFile, JsonFile({}),
     JsonFile({toJson([StoredRecord EXCEPT !.trustLevel = 2])})}

\* The paths given to restoreFromBackup.
BackupPaths ==
    {[stamp |-> -1, file |-> f] : f \in ExternalFiles}
    \cup {[stamp |-> disk.backups[i].stamp, file |-> NoFile] :
             i \in 1..Len(disk.backups)}

\* The orders m_devices.keys() may list the keys of the table in.
KeyOrders ==
    LET keys == {id \in StoreIds : db_devices[id].present}
    IN {ks \in UNION {[1..k -> keys] : k \in 0..Cardinality(StoreIds)} :
           /\ Len(ks) = Cardinality(keys)
           /\ \A id \in keys : \E i \in 1..Len(ks) : ks[i] = id}

\* What a call of the store finds, and what it returned.
StoreLast(op, id, st) ==
    [op |-> op, id |-> id, ret |-> st.ret, count |-> st.count,
     db |-> db_devices, modified |-> m_modified,
     initialized |-> m_initialized, disk |-> disk, steps |-> st.steps,
     fail |-> st.fail, arg |-> st.arg, held |-> st.held, io |-> st.io,
     prevOp |-> last.op, prevRet |-> last.op = "save" /\ last.ret]

\* One operation of the store has run from CurStore to st.
StoreDo(op, id, st, rest) ==
    /\ db_devices' = st.db
    /\ m_modified' = st.modified
    /\ m_initialized' = st.initialized
    /\ disk' = st.disk
    /\ out' = st.out
    /\ mainq' = rest \o st.posted
    /\ last' = StoreLast(op, id, st)
    /\ UNCHANGED <<phys, udevq, mon_devices, m_rescanRequested,
                   m_deviceCards, m_jobs, m_jobCounter, m_hashJobDevices,
                   m_activeHashCount, m_settings, now, hist, workerVars,
                   threadVars, hashing,
                   m_progressTimer>>

\* A caller calls the operation.
StoreCall(op, id, st) ==
    /\ budget.user > 0
    /\ budget' = [budget EXCEPT !.user = @ - 1]
    /\ StoreDo(op, id, st, mainq)

InitializeCall == StoreCall("initialize", "", initialize(CurStore))

AddDeviceCall(record) ==
    StoreCall("addDevice", record.uniqueId,
              [addDevice(CurStore, record.uniqueId, record) EXCEPT
                  !.ret = ~hasDevice(CurStore, record.uniqueId)])

UpdateDeviceCall(record) ==
    StoreCall("updateDevice", record.uniqueId, updateDevice(CurStore, record))

UpsertDeviceCall(record) ==
    StoreCall("upsertDevice", record.uniqueId, upsertDevice(CurStore, record))

RemoveDeviceCall(id) ==
    StoreCall("removeDevice", id, removeDevice(CurStore, id))

RemoveDevicesCall(ids) ==
    StoreCall("removeDevices", "", removeDevices(CurStore, ids))

ClearAllDevicesCall(keys) ==
    StoreCall("clearAllDevices", "", clearAllDevices(CurStore, keys))

UpdateHashCall(id, hash) ==
    StoreCall("updateHash", id,
              [updateHash(CurStore, id, hash, "SHA256") EXCEPT
                  !.ret = hasDevice(CurStore, id)])

SetTrustLevelCall(id, level) ==
    StoreCall("setTrustLevel", id, setTrustLevel(CurStore, id, level))

SetAutoMountCall(id, autoMount) ==
    StoreCall("setAutoMount", id, setAutoMount(CurStore, id, autoMount))

UpdateLastSeenCall(id) ==
    StoreCall("updateLastSeen", id,
              [updateLastSeen(CurStore, id) EXCEPT
                  !.ret = hasDevice(CurStore, id)])

ImportFromFileCall(file, merge) ==
    StoreCall(IF merge THEN "importMerge" ELSE "importReplace", "",
              importFromFile(CurStore, file, merge))

CompactCall == StoreCall("compact", "", compact(CurStore))

SaveCall(fail) == StoreCall("save", "", saveDatabase(CurStore, fail))

ReloadCall == StoreCall("reload", "", reload(CurStore))

CreateBackupCall == StoreCall("createBackup", "", createBackup(CurStore))

RestoreFromBackupCall(path, fail) ==
    StoreCall("restoreFromBackup", "",
              restoreFromBackup(CurStore, path, fail))

\* The save() that markModified queued runs.
QueuedSave(fail) ==
    /\ mainq # <<>>
    /\ Head(mainq).type = "save"
    /\ StoreDo("save", "", saveDatabase(CurStore, fail), Tail(mainq))
    /\ UNCHANGED budget

\* The process is killed inside writeToFile, after k of its file
\* operations; what is left are the files.
KilledInSave(k) ==
    LET st == writeToFile(CurStore, "")
    IN /\ budget.user > 0
       /\ m_initialized
       /\ k \in 1..(Len(st.steps) - 1)
       /\ budget' = [budget EXCEPT !.user = @ - 1]
       /\ StoreDo("killed", "",
                  [CurStore EXCEPT !.db = cleared(@), !.modified = FALSE,
                                   !.initialized = FALSE,
                                   !.disk = st.steps[k],
                                   !.steps = SubSeq(st.steps, 1, k),
                                   !.ret = FALSE],
                  <<>>)

FileFailures == {"", "open", "write", "rename"}

InitStore ==
    /\ Constructed
    /\ NotStarted
    /\ db_devices = [id \in StoreIds |-> NoRecord]
    /\ m_settings = DefaultSettings
    /\ budget = [phys |-> MaxClock, user |-> MaxCalls]
    /\ maxThreadCount = MaxJobs
    /\ m_maxConcurrent = setMaxConcurrent(m_settings.maxConcurrentHashes)
    /\ m_initialized = FALSE
    /\ disk \in InitialDisks

NextStore ==
    \/ Tick
    \/ InitializeCall
    \/ \E record \in InputRecords : AddDeviceCall(record)
    \/ \E record \in InputRecords : UpdateDeviceCall(record)
    \/ \E record \in InputRecords : UpsertDeviceCall(record)
    \/ \E id \in StoreIds : RemoveDeviceCall(id)
    \/ \E ids \in {<<>>, <<uniqueId(DevA), "">>} : RemoveDevicesCall(ids)
    \/ \E keys \in KeyOrders : ClearAllDevicesCall(keys)
    \/ \E id \in StoreIds : UpdateHashCall(id, Digest("x"))
    \/ \E id \in StoreIds : SetTrustLevelCall(id, 2)
    \/ \E id \in StoreIds : SetAutoMountCall(id, TRUE)
    \/ \E id \in StoreIds : UpdateLastSeenCall(id)
    \/ \E file \in ExternalFiles, merge \in BOOLEAN :
           ImportFromFileCall(file, merge)
    \/ CompactCall
    \/ \E fail \in FileFailures : SaveCall(fail)
    \/ ReloadCall
    \/ CreateBackupCall
    \/ \E path \in BackupPaths, fail \in FileFailures :
           RestoreFromBackupCall(path, fail)
    \/ \E fail \in FileFailures : QueuedSave(fail)
    \/ \E k \in 1..3 : KilledInSave(k)

SpecStore == InitStore /\ [][NextStore]_vars

(* ------------------------------------------------------------------ *)
(* Verification against the store: verifyHash called with any          *)
(* candidate on a store that is loaded, filled and re-hashed.          *)
(* ------------------------------------------------------------------ *)

\* The candidates: the digest of either content in lower-case and in
\* upper-case letters, and the empty string.
Candidates ==
    {Digest(c) : c \in Contents} \cup {toUpper(Digest(c)) : c \in Contents}
    \cup {NoHash}

\* DatabaseManager::verifyHash(id, hash), hashMismatch connected to
\* MainWindow::onHashMismatch
VerifyHashCall(id, hash) ==
    StoreCall("verifyHash", id,
              [verifyHashEmit([CurStore EXCEPT !.arg = hash], id, hash) EXCEPT
                  !.ret = verifyHashMatches(CurStore, id, hash)])

NextVerify ==
    \/ InitializeCall
    \/ \E record \in InputRecords : AddDeviceCall(record)
    \/ \E id \in StoreIds, c \in Contents : UpdateHashCall(id, Digest(c))
    \/ \E id \in StoreIds, hash \in Candidates : VerifyHashCall(id, hash)
    \/ \E fail \in FileFailures : QueuedSave(fail)

SpecVerify == InitStore /\ [][NextVerify]_vars

(* ------------------------------------------------------------------ *)
(* The monitor called directly: startMonitoring, stopMonitoring and    *)
(* rescan from two threads, the monitor's own thread from its start to *)
(* its end, and the kernel's notifications.  The signals the monitor   *)
(* emits are kept in mainq in the order of their emission; nothing     *)
(* consumes them.                                                      *)
(* ------------------------------------------------------------------ *)
MaxMonCalls == 3    \* calls of startMonitoring, stopMonitoring and rescan
MaxMonPhys == 3     \* events of the world

\* What a step of a caller finds.
MonLast(op, c) ==
    [op |-> op, caller |-> c, running |-> m_running, thread |-> thread,
     devices |-> mon_devices, events |-> mainq]

monitorVars == <<phys, udevq, mon_devices, m_rescanRequested, mainq>>
restVars == <<m_deviceCards, db_devices, m_modified, m_jobs, m_jobCounter,
              m_hashJobDevices, m_activeHashCount, m_settings, now, out,
              hist, workerVars, fileVars, hashing,
                   m_progressTimer>>

\* QThread::start: nothing happens while the thread runs.
start(th) ==
    IF th.state \in {"none", "finished"}
    THEN [state |-> "started", runs |-> th.runs + 1]
    ELSE th

\* A startMonitoring that starts the thread whatever m_running says.
startMonitoringUnguarded(mon) ==
    [running |-> TRUE, thread |-> start(mon.thread)]

\* DeviceMonitor::startMonitoring
startMonitoring(mon) ==
    IF mon.running
    THEN mon
    ELSE [running |-> TRUE, thread |-> start(mon.thread)]

\* Caller c calls startMonitoring.
StartMonitoringCall(c) ==
    /\ budget.user > 0
    /\ callers[c] = "idle"
    /\ budget' = [budget EXCEPT !.user = @ - 1]
    /\ LET mon == startMonitoring([running |-> m_running, thread |-> thread])
       IN /\ m_running' = mon.running
          /\ thread' = mon.thread
    /\ last' = MonLast("startMonitoring", c)
    /\ UNCHANGED <<monitorVars, callers, m_wakeupPipe>>
    /\ UNCHANGED restVars

\* Caller c calls rescan.
RescanCall(c) ==
    /\ budget.user > 0
    /\ callers[c] = "idle"
    /\ budget' = [budget EXCEPT !.user = @ - 1]
    /\ m_rescanRequested' = TRUE
    /\ m_wakeupPipe' = m_wakeupPipe + 1
    /\ last' = MonLast("rescan", c)
    /\ UNCHANGED <<phys, udevq, mon_devices, mainq, m_running, thread,
                   callers>>
    /\ UNCHANGED restVars

\* Caller c enters stopMonitoring and reads m_running: it returns when
\* the flag is not set.
StopCheck(c) ==
    /\ budget.user > 0
    /\ callers[c] = "idle"
    /\ budget' = [budget EXCEPT !.user = @ - 1]
    /\ callers' = [callers EXCEPT ![c] = IF m_running THEN "checked"
                                         ELSE "idle"]
    /\ last' = MonLast(IF m_running THEN "stopCalled" ELSE "stopReturned", c)
    /\ UNCHANGED <<monitorVars, m_running, thread, m_wakeupPipe>>
    /\ UNCHANGED restVars

\* ... clears the flag and writes a byte to the wakeup pipe
StopSignal(c) ==
    /\ callers[c] = "checked"
    /\ m_running' = FALSE
    /\ m_wakeupPipe' = m_wakeupPipe + 1
    /\ callers' = [callers EXCEPT ![c] = "waiting"]
    /\ last' = MonLast("stopSignalled", c)
    /\ UNCHANGED <<monitorVars, thread, budget>>
    /\ UNCHANGED restVars

\* ... and waits: wait(5000) returns when the thread has finished (or
\* never ran); when it times out the thread is terminated and joined.
StopWait(c, timedOut) ==
    /\ callers[c] = "waiting"
    /\ IF thread.state \in {"none", "finished"}
       THEN ~timedOut /\ UNCHANGED thread
       ELSE timedOut /\ thread' = [thread EXCEPT !.state = "finished"]
    /\ callers' = [callers EXCEPT ![c] = "idle"]
    /\ last' = MonLast("stopReturned", c)
    /\ UNCHANGED <<monitorVars, m_running, m_wakeupPipe, budget>>
    /\ UNCHANGED restVars

\* DeviceMonitor::run, its start: initializeUdev opens the netlink socket
\* (ok), which receives the notifications sent from then on; when it
\* fails monitorError is emitted and the thread ends.
ThreadInitialize(ok) ==
    /\ thread.state = "started"
    /\ udevq' = <<>>
    /\ thread' = [thread EXCEPT !.state = IF ok THEN "initialized"
                                          ELSE "finished"]
    /\ mainq' = IF ok THEN mainq
                ELSE Append(mainq, Ev("monitorError", "", NoDevice, 0))
    /\ UNCHANGED <<phys, mon_devices, m_rescanRequested, m_running, callers,
                   m_wakeupPipe, budget, last>>
    /\ UNCHANGED restVars

\* The number of entries of m_devices.
deviceCount(devices) == Cardinality({n \in Nodes : devices[n].present})

\* ... then the first scanExistingDevices and initialScanComplete with
\* m_devices.size(), carried in the event's job field
ThreadFirstScan(keys) ==
    /\ thread.state = "initialized"
    /\ LET t0 == [devices |-> mon_devices, events |-> mainq]
           t1 == scanAll(t0, NodeSeq)
           t2 == scanRemoved(t1, keys)
       IN /\ mon_devices' = t2.devices
          /\ mainq' = Append(t2.events,
                             Ev("initialScanComplete", "", NoDevice,
                                deviceCount(t2.devices)))
    /\ thread' = [thread EXCEPT !.state = "loop"]
    /\ UNCHANGED <<phys, udevq, m_rescanRequested, m_running, callers,
                   m_wakeupPipe, budget, last>>
    /\ UNCHANGED restVars

\* One turn of the loop of run() while m_running is set: a rescan that
\* was requested, a notification that was received, the wakeup pipe
\* drained.
LoopRescan(keys) ==
    /\ thread.state = "loop"
    /\ m_running
    /\ scanExistingDevices(keys)

LoopEvent ==
    /\ thread.state = "loop"
    /\ m_running
    /\ processUdevEvent

LoopDrain ==
    /\ thread.state = "loop"
    /\ m_running
    /\ m_wakeupPipe > 0
    /\ m_wakeupPipe' = 0
    /\ UNCHANGED <<monitorVars, m_running, thread, callers, budget, last>>
    /\ UNCHANGED restVars

\* The loop finds m_running cleared: cleanupUdev, and run() returns.
ThreadExit ==
    /\ thread.state = "loop"
    /\ ~m_running
    /\ thread' = [thread EXCEPT !.state = "finished"]
    /\ UNCHANGED <<monitorVars, m_running, callers, m_wakeupPipe, budget,
                   last>>
    /\ UNCHANGED restVars

InitMonitor ==
    /\ Constructed
    /\ NotStarted
    /\ db_devices = [id \in Ids |-> NoRecord]
    /\ m_settings = DefaultSettings
    /\ budget = [phys |-> MaxMonPhys, user |-> MaxMonCalls]
    /\ maxThreadCount = MaxJobs
    /\ m_maxConcurrent = setMaxConcurrent(m_settings.maxConcurrentHashes)
    /\ m_initialized = FALSE
    /\ disk = NoDisk

NextMonitor ==
    \/ \E n \in OnePartition, t \in Devs, c \in Contents : Plug(n, t, c)
    \/ \E n \in Nodes : Unplug(n)
    \/ \E n \in Nodes, viaApp \in BOOLEAN : MountChange(n, viaApp)
    \/ \E n \in Nodes : UdevChange(n)
    \/ \E c \in Callers : StartMonitoringCall(c)
    \/ \E c \in Callers : RescanCall(c)
    \/ \E c \in Callers : StopCheck(c)
    \/ \E c \in Callers : StopSignal(c)
    \/ \E c \in Callers, timedOut \in BOOLEAN : StopWait(c, timedOut)
    \/ \E ok \in BOOLEAN : ThreadInitialize(ok)
    \/ \E keys \in Orders : ThreadFirstScan(keys)
    \/ \E keys \in Orders : LoopRescan(keys)
    \/ LoopEvent
    \/ LoopDrain
    \/ ThreadExit

SpecMonitor == InitMonitor /\ [][NextMonitor]_vars

(* ------------------------------------------------------------------ *)
(* One hash job followed through executeHash read by read: the sizes   *)
(* startHash records, the chunks hashWithMmap maps, the buffers        *)
(* hashWithRead fills.  Sizes are counted in KB; the partition at the  *)
(* node may be taken away or replaced at any moment.                   *)
(* ------------------------------------------------------------------ *)
MaxHashCalls == 2     \* calls of startHash and cancelHash
MaxHashPhys == 3      \* events of the world
ChunkSizeKB == 2      \* the chunk of hashWithMmap (256 MB), scaled down
BufferSizesKB == {0 - 1, 0, 1, 2}   \* values of HashJob::bufferSizeKB
Algorithms == {"SHA256", "SHA512", "BLAKE2b", "XXH3_128"}

\* The bytes of each partition content, KB by KB; "z" is an empty
\* partition.
HashContents == Contents \cup {"z"}
Blocks(c) ==
    CASE c = "x" -> <<"k1">>
      [] c = "y" -> <<"k1", "k2", "k3">>
      [] OTHER -> <<>>

\* EVP_DigestFinal_ex printed in hex: one digest per message digest and
\* input, different for different inputs.
hexDigest(md, bytes) == <<md, bytes>>

\* HashWorker::algorithmName
algorithmName(algo) ==
    CASE algo = "SHA256" -> "SHA256"
      [] algo = "SHA512" -> "SHA512"
      [] algo = "BLAKE2b" -> "BLAKE2b"
      [] algo = "XXH3_128" -> "XXH3-128"
      [] OTHER -> "Unknown"

\* A switch that computes SHA-256 for XXH3_128 and leaves the name alone.
readDigestAsRequested(algo) ==
    CASE algo = "SHA256" -> [md |-> "sha256", name |-> algorithmName(algo)]
      [] algo = "SHA512" -> [md |-> "sha512", name |-> algorithmName(algo)]
      [] algo = "BLAKE2b" ->
            [md |-> "blake2b512", name |-> algorithmName(algo)]
      [] algo = "XXH3_128" ->
            [md |-> "sha256", name |-> algorithmName(algo)]

\* The switch of hashWithRead: the digest to compute, and the name to
\* report where the switch replaces it.
readDigest(algo) ==
    CASE algo = "SHA256" -> [md |-> "sha256", name |-> algorithmName(algo)]
      [] algo = "SHA512" -> [md |-> "sha512", name |-> algorithmName(algo)]
      [] algo = "BLAKE2b" ->
            [md |-> "blake2b512", name |-> algorithmName(algo)]
      [] algo = "XXH3_128" -> [md |-> "sha256", name |-> "SHA256"]

\* The switch of hashWithMmap.
mmapDigest(algo) ==
    CASE algo = "SHA256" -> [md |-> "sha256", name |-> algorithmName(algo)]
      [] algo = "SHA512" -> [md |-> "sha512", name |-> algorithmName(algo)]
      [] algo = "BLAKE2b" ->
            [md |-> "blake2b512", name |-> algorithmName(algo)]
      [] algo = "XXH3_128" -> [md |-> "sha256", name |-> "SHA256"]

\* What open() of the node gives: the content there now, or nothing.
opened(n) == IF phys[n].present THEN phys[n].content ELSE "none"

\* HashWorker::getDeviceSize: 0 when the node cannot be opened.
getDeviceSize(n) == IF phys[n].present THEN Len(Blocks(phys[n].content)) ELSE 0

\* The descriptor still reads the partition it was opened on.
Readable(h) == h.fd # "none" /\ opened(h.deviceNode) = h.fd

\* HashWorker::progress for the job; the quotient as numerator and
\* denominator.
progress(h) ==
    IF h.pc = "none" THEN [num |-> 0, den |-> 1]
    ELSE IF h.totalBytes = 0 THEN [num |-> 0, den |-> 1]
    ELSE [num |-> h.bytesProcessed, den |-> h.totalBytes]

\* The errors executeHash recognizes by contains("mmap").
MmapErrors == {"mmap: Failed to open device", "mmap: Device size is 0",
               "mmap failed"}

\* A function returns without a hash.
failed(h, name, msg) ==
    [h EXCEPT !.result = [NoResult EXCEPT !.algorithm = name,
                                          !.errorMessage = msg]]

\* executeHash after hashWithMmap returned: the read path when the error
\* names mmap.
afterMmap(h) ==
    IF ~h.result.success /\ h.result.errorMessage \in MmapErrors
    THEN [h EXCEPT !.pc = "read"]
    ELSE [h EXCEPT !.pc = "finished"]

\* startHash: the JobState of a new job.
newJobState(n, algo, kb, mm) ==
    [NoHashing EXCEPT !.pc = IF mm THEN "mmap" ELSE "read",
                      !.deviceNode = n, !.algorithm = algo,
                      !.bufferSizeKB = kb, !.useMemoryMapping = mm,
                      !.cancelled = FALSE, !.bytesProcessed = 0,
                      !.totalBytes = getDeviceSize(n),
                      !.startedOn = opened(n)]

\* hashWithMmap up to its loop.
hashWithMmapOpen(h) ==
    LET name == algorithmName(h.algorithm)
        deviceSize == IF h.totalBytes = 0 THEN getDeviceSize(h.deviceNode)
                      ELSE h.totalBytes
        sized == [h EXCEPT !.totalBytes = deviceSize]
        d == mmapDigest(h.algorithm)
    IN IF opened(h.deviceNode) = "none"
       THEN afterMmap(failed(h, name, "mmap: Failed to open device"))
       ELSE IF deviceSize = 0
       THEN afterMmap(failed(sized, name, "mmap: Device size is 0"))
       ELSE [sized EXCEPT !.pc = "mmapLoop", !.fd = opened(h.deviceNode),
                          !.md = d.md, !.result.algorithm = d.name,
                          !.offset = 0, !.ctx = <<>>]

\* One round of the loop of hashWithMmap, or what follows the loop;
\* mapped is whether mmap gives the chunk.
hashWithMmapChunk(h, mapped) ==
    LET deviceSize == h.totalBytes
        mapSize == IF ChunkSizeKB < deviceSize - h.offset THEN ChunkSizeKB
                   ELSE deviceSize - h.offset
        bytes == Blocks(h.fd)
    IN IF h.offset < deviceSize
       THEN IF h.cancelled
            THEN afterMmap(failed(h, h.result.algorithm, "Cancelled"))
            ELSE IF ~mapped
            THEN afterMmap(failed(h, h.result.algorithm, "mmap failed"))
            ELSE [h EXCEPT !.ctx = @ \o SubSeq(bytes, h.offset + 1,
                                               h.offset + mapSize),
                           !.offset = @ + mapSize,
                           !.bytesProcessed = h.offset + mapSize]
       ELSE [h EXCEPT !.pc = "finished",
                      !.result.hash = hexDigest(h.md, h.ctx),
                      !.result.bytesProcessed = h.offset,
                      !.result.success = TRUE]

\* hashWithRead up to its loop.
hashWithReadOpen(h) ==
    LET name == algorithmName(h.algorithm)
        deviceSize == IF h.totalBytes = 0 THEN getDeviceSize(h.deviceNode)
                      ELSE h.totalBytes
        sized == [h EXCEPT !.totalBytes = deviceSize]
        d == readDigest(h.algorithm)
    IN IF opened(h.deviceNode) = "none"
       THEN [failed(h, name, "Failed to open device")
                EXCEPT !.pc = "finished"]
       ELSE IF h.bufferSizeKB < 0
       THEN [failed(sized, d.name, "Failed to allocate buffer")
                EXCEPT !.pc = "finished"]
       ELSE [sized EXCEPT !.pc = "readLoop", !.fd = opened(h.deviceNode),
                          !.md = d.md, !.result = [NoResult EXCEPT
                                                   !.algorithm = d.name],
                          !.offset = 0, !.ctx = <<>>]

\* One read of the loop of hashWithRead and what it leads to; ok is
\* whether the read succeeds.  offset is totalRead.
hashWithReadChunk(h, ok) ==
    LET bytes == Blocks(h.fd)
        left == Len(bytes) - h.offset
        bytesRead == IF ~ok THEN 0 - 1
                     ELSE IF h.bufferSizeKB < left THEN h.bufferSizeKB
                     ELSE left
    IN IF bytesRead > 0
       THEN IF h.cancelled
            THEN [failed(h, h.result.algorithm, "Cancelled")
                     EXCEPT !.pc = "finished"]
            ELSE [h EXCEPT !.ctx = @ \o SubSeq(bytes, h.offset + 1,
                                               h.offset + bytesRead),
                           !.offset = @ + bytesRead,
                           !.bytesProcessed = h.offset + bytesRead]
       ELSE IF bytesRead < 0
       THEN [failed(h, h.result.algorithm, "Read error")
                EXCEPT !.pc = "finished"]
       ELSE [h EXCEPT !.pc = "finished",
                      !.result.hash = hexDigest(h.md, h.ctx),
                      !.result.bytesProcessed = h.offset,
                      !.result.success = TRUE]

hashVars == <<phys, udevq, mon_devices, m_rescanRequested, mainq,
              m_settings, now, m_deviceCards, db_devices, m_modified,
              m_jobs, m_jobCounter, m_hashJobDevices, m_activeHashCount,
              out, hist, workerVars, fileVars, threadVars,
              m_progressTimer>>

\* What a step of the job leaves behind.
HashLast(op) == [op |-> op, before |-> hashing]

\* startHash(job) for a job on node n.
SubmitJob(n, algo, kb, mm) ==
    /\ budget.user > 0
    /\ hashing.pc = "none"
    /\ hashing' = newJobState(n, algo, kb, mm)
    /\ budget' = [budget EXCEPT !.user = @ - 1]
    /\ last' = HashLast("startHash")
    /\ UNCHANGED hashVars

\* cancelHash(jobId) of the job.
CancelJob ==
    /\ budget.user > 0
    /\ hashing.pc # "none"
    /\ hashing' = [hashing EXCEPT !.cancelled = TRUE]
    /\ budget' = [budget EXCEPT !.user = @ - 1]
    /\ last' = HashLast("cancelHash")
    /\ UNCHANGED hashVars

\* The pool thread enters hashWithMmap.
MmapOpen ==
    /\ hashing.pc = "mmap"
    /\ hashing' = hashWithMmapOpen(hashing)
    /\ last' = HashLast("hashWithMmap")
    /\ UNCHANGED <<hashVars, budget>>

\* The pool thread maps and hashes a chunk.  A chunk of a partition that
\* is gone, or beyond the end of the one that is there, cannot be read:
\* mmap fails, or the access ends the process.
MmapChunk(mapped) ==
    /\ hashing.pc = "mmapLoop"
    /\ LET inside == /\ Readable(hashing)
                     /\ hashing.totalBytes <= Len(Blocks(hashing.fd))
           looping == hashing.offset < hashing.totalBytes
                      /\ ~hashing.cancelled
       IN IF looping /\ ~inside
          THEN \/ /\ ~mapped
                  /\ hashing' = hashWithMmapChunk(hashing, FALSE)
               \/ /\ mapped
                  /\ hashing' = [hashing EXCEPT !.pc = "crashed"]
          ELSE hashing' = hashWithMmapChunk(hashing, mapped)
    /\ last' = HashLast("mmapChunk")
    /\ UNCHANGED <<hashVars, budget>>

\* The pool thread enters hashWithRead.
ReadOpen ==
    /\ hashing.pc = "read"
    /\ hashing' = hashWithReadOpen(hashing)
    /\ last' = HashLast("hashWithRead")
    /\ UNCHANGED <<hashVars, budget>>

\* The pool thread reads a buffer.  Nothing can be read of a partition
\* that is gone.
ReadChunk(ok) ==
    /\ hashing.pc = "readLoop"
    /\ ~Readable(hashing) => ~ok
    /\ hashing' = hashWithReadChunk(hashing, ok)
    /\ last' = HashLast("readChunk")
    /\ UNCHANGED <<hashVars, budget>>

\* onJobFinished takes the job out of m_jobs.
RemoveJob ==
    /\ hashing.pc = "finished"
    /\ hashing' = NoHashing
    /\ last' = HashLast("onJobFinished")
    /\ UNCHANGED <<hashVars, budget>>

InitHash ==
    /\ Constructed
    /\ NotStarted
    /\ db_devices = [id \in Ids |-> NoRecord]
    /\ m_settings = DefaultSettings
    /\ budget = [phys |-> MaxHashPhys, user |-> MaxHashCalls]
    /\ maxThreadCount = MaxJobs
    /\ m_maxConcurrent = setMaxConcurrent(m_settings.maxConcurrentHashes)
    /\ m_initialized = FALSE
    /\ disk = NoDisk

NextHash ==
    \/ \E n \in OnePartition, t \in Devs, c \in HashContents : Plug(n, t, c)
    \/ \E n \in Nodes : Unplug(n)
    \/ \E n \in Nodes, algo \in Algorithms, kb \in BufferSizesKB,
          mm \in BOOLEAN : SubmitJob(n, algo, kb, mm)
    \/ CancelJob
    \/ MmapOpen
    \/ \E mapped \in BOOLEAN : MmapChunk(mapped)
    \/ ReadOpen
    \/ \E ok \in BOOLEAN : ReadChunk(ok)
    \/ RemoveJob

SpecHash == InitHash /\ [][NextHash]_vars

(* ------------------------------------------------------------------ *)
(* The identity key: devices of any (serial, vendor, model) seen one   *)
(* connection after the other, each with whatever node, mount and      *)
(* filesystem extractDeviceInfo finds that time.                       *)
(* ------------------------------------------------------------------ *)
MaxConnections == 3   \* connections in a run
MaxSeen == 2          \* connections compared with each other

\* The strings a USB descriptor may hold for manufacturer, product and
\* serial.
DescriptorStrings == {"", "A", "B", "A_B"}

\* What varies from one connection of a device to the next.
Attachments ==
    {[deviceNode |-> "/dev/sdb1", mountPoint |-> "", isMounted |-> FALSE,
      fsType |-> "vfat", label |-> "", sizeBytes |-> 512],
     [deviceNode |-> "/dev/sdc1", mountPoint |-> "/mnt/a",
      isMounted |-> TRUE, fsType |-> "vfat", label |-> "L",
      sizeBytes |-> 512],
     [deviceNode |-> "/dev/sdb1", mountPoint |-> "/mnt/b",
      isMounted |-> TRUE, fsType |-> "ext4", label |-> "",
      sizeBytes |-> 1024]}

\* The DeviceInfo extractDeviceInfo fills in for a device of the triple
\* t attached as at.
Snapshot(t, at) ==
    [present |-> TRUE, deviceNode |-> at.deviceNode, serial |-> t.serial,
     vendor |-> t.vendor, model |-> t.model, isMounted |-> at.isMounted,
     mountPoint |-> at.mountPoint, fsType |-> at.fsType,
     label |-> at.label, sizeBytes |-> at.sizeBytes]

Triples == [serial : DescriptorStrings, vendor : DescriptorStrings,
            model : DescriptorStrings]

\* The connections seen so far, the latest MaxSeen of them.
Seen == IF last.op = "connected" THEN last.seen ELSE <<>>

\* A device connects: its DeviceInfo and the key of it.
DeviceSeen(t, at) ==
    /\ budget.user > 0
    /\ LET info == Snapshot(t, at)
           seen == IF Len(Seen) < MaxSeen THEN Seen ELSE Tail(Seen)
       IN last' = [op |-> "connected",
                   seen |-> Append(seen, [info |-> info,
                                          key |-> uniqueId(info)])]
    /\ budget' = [budget EXCEPT !.user = @ - 1]
    /\ UNCHANGED hashVars
    /\ UNCHANGED hashing

InitKey ==
    /\ Constructed
    /\ NotStarted
    /\ db_devices = [id \in Ids |-> NoRecord]
    /\ m_settings = DefaultSettings
    /\ budget = [phys |-> 0, user |-> MaxConnections]
    /\ maxThreadCount = MaxJobs
    /\ m_maxConcurrent = setMaxConcurrent(m_settings.maxConcurrentHashes)
    /\ m_initialized = FALSE
    /\ disk = NoDisk

NextKey == \E t \in Triples, at \in Attachments : DeviceSeen(t, at)

SpecKey == InitKey /\ [][NextKey]_vars

(* ------------------------------------------------------------------ *)
(* Backups of a store that is initialized over a database file an      *)
(* earlier run saved: createBackup called again and again, at any      *)
(* pace.                                                               *)
(* ------------------------------------------------------------------ *)
MaxSeconds == 6       \* seconds that pass between the calls
MaxBackupCalls == 7   \* calls of createBackup

\* A second of the wall clock passes.
ElapseSecond ==
    /\ budget.phys > 0
    /\ now' = now + MsPerSecond
    /\ budget' = [budget EXCEPT !.phys = @ - 1]
    /\ UNCHANGED <<phys, udevq, mon_devices, m_rescanRequested, mainq,
                   m_settings>>
    /\ UNCHANGED mainVars

\* The store after initialize() has loaded the file of an earlier run.
InitBackup ==
    /\ Constructed
    /\ NotStarted
    /\ db_devices = insertLoaded([id \in StoreIds |-> NoRecord],
                                 {toJson(StoredRecord)})
    /\ m_settings = DefaultSettings
    /\ budget = [phys |-> MaxSeconds, user |-> MaxBackupCalls]
    /\ maxThreadCount = MaxJobs
    /\ m_maxConcurrent = setMaxConcurrent(m_settings.maxConcurrentHashes)
    /\ m_initialized = TRUE
    /\ disk = [NoDisk EXCEPT !.db = JsonFile({toJson(StoredRecord)})]

NextBackup ==
    \/ ElapseSecond
    \/ CreateBackupCall

SpecBackup == InitBackup /\ [][NextBackup]_vars


(* ------------------------------------------------------------------ *)
(* Properties                                                          *)
(* ------------------------------------------------------------------ *)

\* The effects of the last step that are of kind k and about node n.
Effects(k, n) == {i \in 1..Len(out) : out[i].k = k /\ out[i].node = n}

\* The last step delivered hashCompleted for a job of a device that the
\* monitor lists and the store knows.
CompletedKnown ==
    /\ last.op = "finished"
    /\ Effects("hashCompleted", last.node) # {}
    /\ last.connected
    /\ last.known

\* ... with a hash that differs, ignoring case, from a non-empty stored one
CompletedMismatch ==
    /\ CompletedKnown
    /\ last.stored # NoHash
    /\ toLower(last.stored) # toLower(last.computed)

\* C1: whenever a hash job of a known device completes with a hash that
\* differs, ignoring letter case, from the non-empty stored hash, the
\* device's status is Modified, hashMismatch(expected = stored, actual =
\* computed) was emitted, a line was logged at Security severity and the
\* alert was shown.
C1_MismatchReported ==
    CompletedMismatch =>
        /\ m_deviceCards[last.node].status = "Modified"
        /\ \E i \in 1..Len(out) :
               /\ out[i].k = "hashMismatch"
               /\ out[i].id = last.id
               /\ out[i].expected = last.stored
               /\ out[i].actual = last.computed
        /\ \E i \in 1..Len(out) : out[i].k = "log" /\ out[i].level = "Security"
        /\ Effects("modifiedAlert", last.node) # {}

\* Mount requests of the last step that no press of the Mount button asked
\* for.
AutoMounts(n) == {i \in Effects("mount", n) : out[i].by # "user"}

\* C2: with blockModifiedDevices set, no mount request is issued for a
\* device from the step that found it Modified until a verification of it
\* succeeds, neither automatically nor by onMountRequested.
C2_BlockedNeverMounted ==
    \A n \in Nodes :
        (/\ m_settings.blockModifiedDevices
         /\ \/ last.pre.blocked[n]
            \/ last.op = "finished" /\ last.node = n /\ hist.blocked[n])
        => Effects("mount", n) = {}

\* C3: with autoHashOnEject set, the handler of an eject or unmount
\* request for a known connected device issues no unmount and no powerOff
\* (the hash job it starts cannot have delivered its outcome yet).
C3_HashBeforeEject ==
    (/\ last.op \in {"ejectRequested", "unmountRequested"}
     /\ m_settings.autoHashOnEject
     /\ last.connected
     /\ last.known)
    => /\ Effects("unmount", last.node) = {}
       /\ Effects("powerOff", last.node) = {}

\* C4: a job that was in flight for a node when onDeviceDisconnected
\* handled the node's disconnect ends with hashCancelled, and its end
\* changes no record, sets no Verified or Modified status and requests no
\* mount.
C4_DisconnectCancels ==
    (last.op = "finished" /\ last.job \in last.pre.disc)
    => /\ Effects("hashCancelled", last.node) # {}
       /\ db_devices = last.db
       /\ Effects("mount", last.node) = {}
       /\ Effects("hashMismatch", "") = {}

\* The last step handled the connect of a device that is not in the store
\* and asked the user, who answered No.
Declined ==
    /\ last.op = "deviceConnected"
    /\ ~last.known
    /\ Effects("newDeviceDialog", last.node) # {}
    /\ ~last.answer

\* C5: when the confirmation for an unknown device is declined, the
\* handler of the connect adds no record for the identity, starts no hash
\* job for the node and requests no mount of it.
C5_DeclinedDiscarded ==
    Declined =>
        /\ ~db_devices[last.id].present
        /\ db_devices = last.db
        /\ Effects("hashStarted", last.node) = {}
        /\ Effects("mount", last.node) = {}

C5_Witness ==
    /\ Declined
    /\ m_settings.requireConfirmationForNew
    /\ m_settings.autoHashOnConnect
    /\ m_deviceCards[last.node].status = "NewDevice"

\* C6: the application requests no mount of a device whose identity was
\* not in the store when it connected unless the user was shown the
\* confirmation prompt for it and accepted.
C6_UnknownNeedsConfirmation ==
    \A n \in Nodes :
        (AutoMounts(n) # {} /\ hist.unknown[n]) => hist.accepted[n]

\* The last step whitelisted an unknown device: the prompt was accepted,
\* or no prompt is required.
Whitelisted ==
    /\ last.op = "deviceConnected"
    /\ ~last.known
    /\ last.answer \/ ~m_settings.requireConfirmationForNew

\* C7: whitelisting creates the record with the configured default trust
\* level, and every mount request for a device that connected unknown
\* comes after its first hash was stored.
C7_HashStoredBeforeMount ==
    /\ Whitelisted =>
           /\ db_devices[last.id].present
           /\ db_devices[last.id].trustLevel = m_settings.defaultTrustLevel
    /\ \A n \in Nodes : \A i \in AutoMounts(n) :
           hist.unknown[n] =>
               \/ last.known /\ last.stored # NoHash
               \/ \E k \in 1..(i - 1) : /\ out[k].k = "deviceUpdated"
                                        /\ out[k].id = last.id

\* C8: when a job of a known device completes with the stored hash, or
\* the record holds no hash yet, the status is Verified, the new hash is
\* the baseline, the record's last-seen time is the time of the
\* verification, and a mount is requested iff the device is not mounted.
C8_VerifiedEffects ==
    (CompletedKnown /\ (last.stored = NoHash
                        \/ toLower(last.stored) = toLower(last.computed)))
    => /\ m_deviceCards[last.node].status = "Verified"
       /\ last.stored = NoHash => db_devices[last.id].hash = last.computed
       /\ db_devices[last.id].lastSeen = now
       /\ (Effects("mount", last.node) # {}) <=> ~last.wasMounted

\* C9: the connect of a known device with autoHashOnConnect set starts a
\* hash job whatever the record holds, and no mount of the node is
\* requested before that job's outcome is delivered.
C9_HashBeforeMountOnConnect ==
    /\ (/\ last.op = "deviceConnected"
        /\ last.known
        /\ m_settings.autoHashOnConnect)
       => /\ Effects("hashStarted", last.node) # {}
          /\ Effects("mount", last.node) = {}
    /\ \A n \in Nodes :
           (AutoMounts(n) # {} /\ last.pre.connJob[n] # 0)
           => last.op = "finished" /\ last.job = last.pre.connJob[n]

\* C10: when a hash job fails, the device's status is Error, the store's
\* table and dirty flag are as before, and no mount is requested.
C10_FailedEffects ==
    (last.op = "finished" /\ Effects("hashFailed", last.node) # {})
    => /\ m_deviceCards[last.node].status = "Error"
       /\ db_devices = last.db
       /\ m_modified = last.modified
       /\ Effects("mount", last.node) = {}

\* C11: the number of hash jobs that execute at the same time never
\* exceeds the maximum set with setMaxConcurrent.
C11_MaxConcurrent == Cardinality(Executing) <= m_maxConcurrent

\* The last step processed the end of a job that had been cancelled.
CancelledProcessed == last.op = "finished" /\ last.wasCancelled

\* C12: a job cancelled before its completion is processed reports
\* hashCancelled once, neither hashFailed nor hashCompleted, and is out of
\* the active set (one job fewer) when the event is emitted.
C12_CancelledReported ==
    CancelledProcessed =>
        /\ Cardinality({i \in 1..Len(out) : /\ out[i].k = "hashCancelled"
                                             /\ out[i].job = last.job}) = 1
        /\ \A i \in 1..Len(out) :
               out[i].k \notin {"hashFailed", "hashCompleted"}
        /\ ~m_jobs[last.job].present
        /\ activeJobCount(m_jobs) = last.jobCount - 1

\* ... of a job whose hash had been computed before it was cancelled,
\* while another job is still active.
C12_Witness ==
    /\ CancelledProcessed
    /\ last.computed # NoHash
    /\ activeJobCount(m_jobs) = 1

\* The last step ran writeToFile over a database file that existed; the
\* states of the files inside the call are last.steps, the last of them
\* being the result when the call succeeded.
WroteOverFile ==
    /\ last.op \in {"save", "killed"}
    /\ last.disk.db.exists
    /\ last.steps # <<>>

\* C13: at every step inside save(), and after a save that fails or is
\* killed, the database file exists with its previous content.
C13_PreviousFileIntact ==
    WroteOverFile =>
        \A k \in 1..Len(last.steps) :
            (k < Len(last.steps) \/ ~last.ret)
            => last.steps[k].db = last.disk.db

\* C14: a reload() that follows a successful save() leaves the table as
\* it was before the save: the same keys, every field of every record.
C14_SaveReloadRoundTrip ==
    (last.op = "reload" /\ last.ret /\ last.prevRet)
    => db_devices = last.db

\* The last step was a createBackup() of an initialized store whose
\* database file exists.
BackupCalled ==
    /\ last.op = "createBackup"
    /\ last.initialized
    /\ last.disk.db.exists

\* The backups that exist, newest first, cut to the n newest.
Newest(backups, n) ==
    IF Len(backups) > n THEN SubSeq(backups, 1, n) ELSE backups

\* C15: each createBackup() of an initialized, saved store returns a path
\* and adds one new backup, a copy of the database file, in front of the
\* backups there were, of which the 5 newest remain; after 6 calls or
\* more exactly 5 backups exist.
C15_BackupRotation ==
    BackupCalled =>
        /\ last.ret
        /\ disk.backups # <<>>
        /\ disk.backups[1].file = last.disk.db
        /\ \A j \in 1..Len(last.disk.backups) :
               last.disk.backups[j].stamp # disk.backups[1].stamp
        /\ Tail(disk.backups) =
               Newest(last.disk.backups, MAX_BACKUP_COUNT - 1)
        /\ Len(disk.backups) <= MAX_BACKUP_COUNT
        /\ (MaxBackupCalls - budget.user >= MAX_BACKUP_COUNT + 1)
           => Len(disk.backups) = MAX_BACKUP_COUNT

\* C16: when restoreFromBackup replaces the table, a backup made by this
\* call holds the table as it was immediately before.
C16_SafetyBackupFirst ==
    (last.op = "restoreFromBackup" /\ db_devices # last.db)
    => \E i \in 1..Len(disk.backups) :
           /\ \A j \in 1..Len(last.disk.backups) :
                  last.disk.backups[j].stamp # disk.backups[i].stamp
           /\ disk.backups[i].file = documentOf(last.db)

\* The operations that change the table.
Mutations ==
    {"addDevice", "updateDevice", "upsertDevice", "removeDevice",
     "removeDevices", "clearAllDevices", "updateHash", "setTrustLevel",
     "setAutoMount", "updateLastSeen", "importMerge", "importReplace",
     "compact"}

\* C17: an operation that changed the table has marked the store dirty.
C17_MutationsMarkDirty ==
    (last.op \in Mutations /\ db_devices # last.db) => m_modified

\* The last step was a save() whose file write failed.
SaveWriteFailed == last.op = "save" /\ last.fail # ""

\* C18: a save() whose write fails emits databaseError and returns
\* false; the dirty flag and the table are as before.
C18_FailedSaveKeepsDirty ==
    SaveWriteFailed =>
        /\ ~last.ret
        /\ \E i \in 1..Len(out) : out[i].k = "databaseError"
        /\ m_modified = last.modified
        /\ db_devices = last.db

\* ... at the rename, of a store with unsaved changes.
C18_Witness ==
    /\ SaveWriteFailed
    /\ last.fail = "rename"
    /\ m_modified
    /\ recordsOf(db_devices) # {}

\* The last step initialized the store over a file that is no JSON.
InitializedOverGarbage ==
    /\ last.op = "initialize"
    /\ last.disk.db.exists
    /\ last.disk.db.kind \notin {"json", "empty"}

VerifiedKnown == last.op = "verifyHash" /\ last.db[last.id].present
StoredHash == last.db[last.id].hash

\* The hashMismatch signals of the last step.
Mismatches == {i \in 1..Len(out) : out[i].k = "hashMismatch"}

\* C21: verifyHash(id, h) returns true exactly when a record of id exists
\* and its hash equals h but for the letter case; it emits
\* hashMismatch(id, stored, h), once, exactly when the record exists, its
\* hash is not empty and the comparison fails; the table and the dirty
\* flag are as before.
C21_VerifyHash ==
    last.op = "verifyHash" =>
        /\ last.ret <=> (VerifiedKnown /\ toLower(StoredHash) = toLower(last.arg))
        /\ IF VerifiedKnown /\ StoredHash # NoHash /\ ~last.ret
           THEN /\ Cardinality(Mismatches) = 1
                /\ \A i \in Mismatches :
                       /\ out[i].id = last.id
                       /\ out[i].expected = StoredHash
                       /\ out[i].actual = last.arg
           ELSE Mismatches = {}
        /\ db_devices = last.db
        /\ m_modified = last.modified

\* ... of a candidate that equals the stored hash but for the case.
C21_Witness ==
    /\ VerifiedKnown
    /\ last.ret
    /\ StoredHash # last.arg
    /\ StoredHash # NoHash

\* The places of initialScanComplete among the signals emitted.
ScansComplete == {i \in 1..Len(mainq) : mainq[i].type = "initialScanComplete"}

\* The last step was a startMonitoring that found m_running set.
StartedAgain == last.op = "startMonitoring" /\ last.running

\* C22: a startMonitoring that finds the monitor running changes neither
\* the thread nor the device table and emits nothing; the first run of
\* the thread, once udev is initialized, emits one deviceConnected for
\* each partition it finds and then one initialScanComplete whose count
\* is their number, before anything else.
\* In the first run nothing but the connects of distinct nodes precedes
\* initialScanComplete, which counts them.
FirstScanAnnounced ==
    thread.runs <= 1 =>
        /\ Cardinality(ScansComplete) <= 1
        /\ thread.state = "loop" => ScansComplete # {}
        /\ \A i \in ScansComplete :
               /\ mainq[i].job = i - 1
               /\ \A j \in 1..(i - 1) :
                      /\ mainq[j].type = "deviceConnected"
                      /\ \A k \in 1..(i - 1) :
                             mainq[k].node = mainq[j].node => k = j
C22_StartIdempotent ==
    /\ [][(StartedAgain' /\ budget'.user < budget.user) =>
             /\ thread' = thread
             /\ m_running'
             /\ mon_devices' = mon_devices
             /\ mainq' = mainq]_vars
    /\ [][(thread'.runs = 1 /\ ScansComplete' # ScansComplete) =>
             \A n \in Nodes :
                 phys[n].present =>
                     \E j \in 1..Len(mainq') :
                         /\ mainq'[j].type = "deviceConnected"
                         /\ mainq'[j].node = n]_vars
    /\ []FirstScanAnnounced

\* ... while the thread is in its loop after a scan that found a device.
C22_Witness ==
    /\ StartedAgain
    /\ last.thread.state = "loop"
    /\ \E i \in ScansComplete : mainq[i].job = 1

\* C23: when stopMonitoring returns to a caller, the monitor's thread is
\* not running.
C23_StopWaitsForExit ==
    last.op = "stopReturned" => thread.state \in {"none", "finished"}

\* The connects and disconnects emitted for node n, in order.
Transitions(n) ==
    SelectSeq(mainq, LAMBDA e : /\ e.node = n
                                /\ e.type \in {"deviceConnected",
                                               "deviceDisconnected"})

\* C24: for every node the deviceConnected and deviceDisconnected signals
\* alternate, the first being deviceConnected.
C24_TransitionsAlternate ==
    \A n \in Nodes :
        \A i \in 1..Len(Transitions(n)) :
            Transitions(n)[i].type = IF i % 2 = 1 THEN "deviceConnected"
                                     ELSE "deviceDisconnected"

\* The step is processUdevEvent of a "change" notification.
ChangeHandled ==
    /\ thread.state = "loop"
    /\ thread' = thread
    /\ udevq # <<>>
    /\ Head(udevq).action = "change"
    /\ udevq' = Tail(udevq)

\* C25: handling a "change" notification emits deviceChanged only when
\* the node is in the table with another mount status, and adds no entry
\* for a node that is not in the table.
C25_ChangeDiffs ==
    [][ChangeHandled =>
          LET n == Head(udevq).node
          IN /\ mainq' # mainq =>
                    /\ mon_devices[n].present
                    /\ mon_devices'[n].isMounted # mon_devices[n].isMounted
             /\ ~mon_devices[n].present => ~mon_devices'[n].present]_vars

\* The last step was an addDevice of a key that exists or an
\* updateDevice of a key that does not.
RejectedCall ==
    \/ last.op = "addDevice" /\ last.db[last.id].present
    \/ last.op = "updateDevice" /\ ~last.db[last.id].present

\* C20: such a call returns false, leaves the table and the dirty flag
\* as they were and emits neither deviceAdded nor deviceUpdated.
C20_RejectedCallsChangeNothing ==
    RejectedCall =>
        /\ ~last.ret
        /\ db_devices = last.db
        /\ m_modified = last.modified
        /\ \A i \in 1..Len(out) :
               out[i].k \notin {"deviceAdded", "deviceUpdated"}

\* ... an addDevice of a record that differs from the one stored, on a
\* clean store.
C20_Witness ==
    /\ RejectedCall
    /\ last.op = "addDevice"
    /\ ~m_modified
    /\ db_devices[last.id].trustLevel # m_settings.defaultTrustLevel

\* C26: progress(jobId) is a fraction between 0 and 1: the bytes processed
\* never exceed the total recorded for the job, at any time of its run;
\* with no such job, or a total of 0, the fraction is 0.
C26_ProgressInUnitInterval ==
    LET p == progress(hashing)
    IN /\ 0 <= p.num
       /\ p.num <= p.den
       /\ (hashing.pc = "none" \/ hashing.totalBytes = 0) => p.num = 0

\* The name of each message digest of OpenSSL, as algorithmName spells it.
DigestName(md) ==
    CASE md = "sha256" -> "SHA256"
      [] md = "sha512" -> "SHA512"
      [] md = "blake2b512" -> "BLAKE2b"

\* The job has returned a hash.
Hashed == hashing.pc = "finished" /\ hashing.result.success

\* C27: the algorithm a successful result reports is the digest that
\* produced its hash, on either path; a job that asks for XXH3_128 is
\* hashed with SHA-256 and reports "SHA256".
C27_ReportsAlgorithmUsed ==
    Hashed =>
        /\ hashing.result.hash[1] = hashing.md
        /\ hashing.result.algorithm = DigestName(hashing.result.hash[1])
        /\ hashing.algorithm = "XXH3_128" =>
               /\ hashing.result.algorithm = "SHA256"
               /\ hashing.result.hash[1] = "sha256"

\* ... a job for XXH3_128 hashed by the read path after mmap failed.
C27_Witness ==
    /\ Hashed
    /\ hashing.algorithm = "XXH3_128"
    /\ hashing.useMemoryMapping
    /\ last.op = "readChunk"
    /\ Len(hashing.result.hash[2]) > 1

\* executeHash run to its end with nothing failing and nothing changing.
RECURSIVE runToEnd(_)
runToEnd(h) ==
    CASE h.pc = "mmap" -> runToEnd(hashWithMmapOpen(h))
      [] h.pc = "mmapLoop" -> runToEnd(hashWithMmapChunk(h, TRUE))
      [] h.pc = "read" -> runToEnd(hashWithReadOpen(h))
      [] h.pc = "readLoop" -> runToEnd(hashWithReadChunk(h, TRUE))
      [] OTHER -> h

\* The job has returned a hash of the content that was at the node when
\* it was started and is there still.
HashedFixedContent ==
    /\ Hashed
    /\ hashing.startedOn = hashing.fd
    /\ Readable(hashing)

\* C28: for a fixed content and algorithm every successful job yields the
\* same digest, whatever its buffer size and its path: the digest of a job
\* that maps the partition, with a buffer of 1 KB for the case that it
\* falls back to reading.
C28_SameDigestOnEveryPath ==
    HashedFixedContent =>
        hashing.result.hash =
            runToEnd(newJobState(hashing.deviceNode, hashing.algorithm,
                                 1, TRUE)).result.hash

\* The triple of a DeviceInfo.
TripleOf(d) == <<d.serial, d.vendor, d.model>>

\* C29: two connections of devices whose (serial, vendor, model) differ,
\* an absent serial included, never get the same key.
C29_KeyInjective ==
    \A i, j \in 1..Len(Seen) :
        TripleOf(Seen[i].info) # TripleOf(Seen[j].info) =>
            Seen[i].key # Seen[j].key

\* C30: two connections with the same (serial, vendor, model) get the same
\* key, whatever node, mount point, mount status, filesystem, label and
\* size each of them has.
C30_KeyOfTripleOnly ==
    \A i, j \in 1..Len(Seen) :
        TripleOf(Seen[i].info) = TripleOf(Seen[j].info) =>
            Seen[i].key = Seen[j].key

\* ... a device without a serial seen again at another node, mounted,
\* after a connection of another device in between.
C30_Witness ==
    /\ Len(Seen) = MaxSeen
    /\ budget.user = 0
    /\ TripleOf(Seen[1].info) = TripleOf(Seen[2].info)
    /\ Seen[1].info.serial = ""
    /\ Seen[1].info.deviceNode # Seen[2].info.deviceNode
    /\ Seen[1].info.isMounted # Seen[2].info.isMounted
    /\ Seen[1].info.label # Seen[2].info.label

\* A step within the lifetime of the job.
JobStep == hashing.pc # "none" /\ hashing'.pc # "none"

\* C40: bytesProcessed of a job, and with it the fraction progress()
\* reports, never decreases while the job lives, the fall back from
\* hashWithMmap to hashWithRead included.
C40_ProgressMonotonic ==
    [][JobStep => hashing'.bytesProcessed >= hashing.bytesProcessed]_vars

\* isMonitoring()
isMonitoring == m_running

\* C39: once run() has returned, for whatever reason, isMonitoring() is
\* false, so that the next startMonitoring() starts the loop again.
C39_RunningWhileLoopAlive == thread.state = "finished" => ~isMonitoring

\* C37: a reload() that fails returns false and leaves the table of
\* devices and the dirty flag as they were before the call.
C37_FailedReloadChangesNothing ==
    (last.op = "reload" /\ ~last.ret) =>
        /\ db_devices = last.db
        /\ m_modified = last.modified

\* The last step was an operation of the store that went into
\* writeToFile.
WroteFile == last.op \in {"save", "restoreFromBackup"} /\ last.io # <<>>

\* C36: the whitelist file is written with m_lock released.
C36_NoLockAcrossWrite ==
    WroteFile => \A i \in 1..Len(last.io) : last.io[i] = "none"

\* The notifications of the store.
StoreSignals == {"deviceAdded", "deviceUpdated", "deviceRemoved",
                 "databaseLoaded", "databaseSaved", "databaseError",
                 "hashMismatch"}

\* The last step was an operation of the store.
StoreStep == last.op \notin {"init", "killed"}

\* C38: no notification of the store is emitted with m_lock held.
C38_NoEmitUnderLock ==
    StoreStep =>
        /\ Len(last.held) = Len(out)
        /\ \A i \in 1..Len(out) :
               out[i].k \in StoreSignals => last.held[i] = "none"

\* The user asked to unmount the connected, mounted partition at n while
\* autoHashOnEject is set and no connection waits to be handled.
UnmountAsked(n) ==
    /\ last.op = "unmountRequested"
    /\ last.node = n
    /\ last.connected
    /\ last.wasMounted
    /\ m_settings.autoHashOnEject
    /\ \A i \in 1..Len(mainq) : mainq[i].type # "deviceConnected"
    /\ \A i \in 1..Len(udevq) : udevq[i].action # "add"

\* The job of n did not complete: it failed or was cancelled, or the
\* partition is gone.
RehashLost(n) ==
    \/ ~mon_devices[n].present
    \/ /\ last.op = "finished"
       /\ last.node = n
       /\ Effects("hashCompleted", n) = {}

\* C31: with autoHashOnEject, the unmount the user asked for is requested
\* of the mount manager once the re-hash has finished.
C31_UnmountAfterRehash ==
    \A n \in OnePartition :
        [](UnmountAsked(n) =>
              <>(Effects("unmount", n) # {} \/ RehashLost(n)))

\* C34: at most one hash job is in flight per device node, so that
\* m_hashJobDevices never maps two job ids to one node.
C34_OneJobPerNode ==
    \A n \in Nodes :
        /\ Cardinality(jobsOfNode(n)) <= 1
        /\ Cardinality({j \in JobIds : /\ m_jobs[j].present
                                        /\ m_jobs[j].deviceNode = n}) <= 1

\* The last step delivered hashCompleted for a job of a device the monitor
\* lists, and left its card Verified or requested its mount.
CompletedVerified ==
    /\ last.op = "finished"
    /\ Effects("hashCompleted", last.node) # {}
    /\ last.connected
    /\ \/ /\ m_deviceCards[last.node].present
          /\ m_deviceCards[last.node].status = "Verified"
       \/ Effects("mount", last.node) # {}

\* C33: a completion sets Verified, and requests a mount on that basis,
\* only when the store then holds a record of the device whose stored
\* hash is the hash just computed.
C33_VerifiedOnlyWithRecord ==
    CompletedVerified =>
        /\ last.id \in Ids
        /\ db_devices[last.id].present
        /\ compareCI(db_devices[last.id].hash, last.computed)

\* C32: a partition whose bytes are what they were at its own first hash
\* is never reported Modified: in the runs of SpecParts, where the store
\* starts empty and no content ever changes, no card shows Modified and
\* no mismatch is reported, however many partitions are connected.
C32_UnchangedNeverModified ==
    \A n \in Nodes :
        /\ m_deviceCards[n].present => m_deviceCards[n].status # "Modified"
        /\ \A i \in 1..Len(out) : out[i].k # "hashMismatch"

\* The events of job j among the effects o, by kind.
JobEvents(o, j, kinds) ==
    {i \in 1..Len(o) : o[i].job = j /\ o[i].k \in kinds}
TerminalEvents == {"hashCompleted", "hashFailed", "hashCancelled"}
WorkerEvents == TerminalEvents \cup {"hashStarted", "hashProgress"}

\* A step of the hasher, as job j sees it: startHash puts j into the
\* active set, onJobFinished takes it out, any other step leaves it.
JobEnters(j) == ~m_jobs[j].present /\ m_jobs'[j].present
JobLeaves(j) == m_jobs[j].present /\ ~m_jobs'[j].present
JobStepOK(j) ==
    /\ m_jobCounter' >= m_jobCounter
    /\ JobEnters(j) =>
           /\ m_jobCounter < j /\ m_jobCounter' = j
           /\ Cardinality(JobEvents(out', j, {"hashStarted"})) = 1
           /\ JobEvents(out', j, WorkerEvents \ {"hashStarted"}) = {}
    /\ JobLeaves(j) =>
           /\ Cardinality(JobEvents(out', j, TerminalEvents)) = 1
           /\ JobEvents(out', j, WorkerEvents \ TerminalEvents) = {}
    /\ (~JobEnters(j) /\ ~JobLeaves(j) /\ out' # out) =>
           /\ JobEvents(out', j, WorkerEvents \ {"hashProgress"}) = {}
           /\ JobEvents(out', j, {"hashProgress"}) # {} => m_jobs[j].present

\* C35: a job enters the active set once, with one hashStarted; it
\* leaves it in the step that emits its one terminal event, which comes
\* eventually; no event of the job is emitted outside that span; and
\* the progress timer is active exactly while the active set is not
\* empty.
C35_JobLifecycle ==
    /\ [][\A j \in JobIds : JobStepOK(j)]_vars
    /\ [](m_progressTimer <=> \E j \in JobIds : m_jobs[j].present)
    /\ \A j \in JobIds : m_jobs[j].present ~> ~m_jobs[j].present

\* A job has just ended with its terminal event while another is still
\* active and the timer runs on.
C35_Witness ==
    /\ last.op = "finished"
    /\ \E j \in JobIds :
           /\ ~m_jobs[j].present
           /\ JobEvents(out, j, TerminalEvents) # {}
    /\ \E j \in JobIds : m_jobs[j].present
    /\ m_progressTimer

====
